---- MODULE Spec2Model ----
(***************************************************************************)
(* Model of the mosaic tile cache (LocalMosaicStorage), the client key     *)
(* derivation (ClientMosaicApi) and the download pipeline                  *)
(* (MosaicDownloader) of carbonprojectviewer.                              *)
(*                                                                         *)
(* Numbers: a bbox coordinate is an integer count of 0.0001 degrees, so    *)
(* that values closer together than the rounding precision (0.001) exist.  *)
(* Strings are sequences of character codes.  Time is an integer count of  *)
(* days.                                                                   *)
(***************************************************************************)
EXTENDS Integers, Sequences, FiniteSets, TLC

VARIABLES
  now,      \* the clock, in days (new Date())
  dirs,     \* the mosaic directories that exist under tilesDir (their names)
  meta,     \* the metadata.json files: directory name -> file content
  tiles,    \* the tile files: [hash, z, x, y, format] -> bytes
  run,      \* the downloadMosaic calls in flight: run id -> its local state
  infoEver, \* history: the hashes saveMosaicInfo was ever called with
  ops,      \* history: the last call that wrote to the storage
  pin,      \* inputs of the pure key-derivation functions
  pout,     \* their outputs
  response, \* the last answer of the tile route
  fetch,    \* the fetchWithTimeout call in flight: its local state
  wayback   \* the wayback route call in flight, or its answer

vars == <<now, dirs, meta, tiles, run, infoEver, ops, pin, pout, response, fetch, wayback>>

(***************************************************************************)
(* Key derivation                                                          *)
(***************************************************************************)

\* Math.round(coord * 1000): the nearest integer, a half rounding up.
\* coord is c / 10000, so coord * 1000 is c / 10.
Precision == 1000

RoundCoordFloor(c) == c \div 10

RoundCoord(c) == (c + 5) \div 10

\* The decimal digits of a natural number, as character codes.
RECURSIVE Digits(_)
Digits(n) == IF n < 10 THEN <<48 + n>> ELSE Digits(n \div 10) \o <<48 + (n % 10)>>

\* The fraction digits of f / 1000 (0 < f < 1000) without trailing zeros.
FracDigits(f) ==
  LET d1 == f \div 100
      d2 == (f \div 10) % 10
      d3 == f % 10
  IN IF d3 # 0 THEN <<48 + d1, 48 + d2, 48 + d3>>
     ELSE IF d2 # 0 THEN <<48 + d1, 48 + d2>>
     ELSE <<48 + d1>>

\* JSON.stringify of the number k / 1000 (Math.round(..) / 1000): the
\* shortest decimal form; -0 prints as 0.
NumberToJson(k) ==
  LET a == IF k < 0 THEN -k ELSE k
      ip == a \div Precision
      fp == a % Precision
  IN (IF k < 0 THEN <<45>> ELSE <<>>)
     \o Digits(ip)
     \o (IF fp = 0 THEN <<>> ELSE <<46>> \o FracDigits(fp))

\* JSON.stringify({ year, bbox: bbox.map(coord => Math.round(coord * 1000) / 1000) })
\*   {"year":Y,"bbox":[w,s,e,n]}
ConfigJson(year, bbox) ==
  <<123, 34, 121, 101, 97, 114, 34, 58>> \o Digits(year)
  \o <<44, 34, 98, 98, 111, 120, 34, 58, 91>>
  \o NumberToJson(RoundCoord(bbox[1])) \o <<44>>
  \o NumberToJson(RoundCoord(bbox[2])) \o <<44>>
  \o NumberToJson(RoundCoord(bbox[3])) \o <<44>>
  \o NumberToJson(RoundCoord(bbox[4]))
  \o <<93, 125>>

\* A hash is its hex text: hexlen is the text's length, digest what tells two
\* texts of that length apart.  createHash('md5')...digest('hex') is 32 hex
\* characters; MD5 is taken to be free of collisions, so the digest of a string
\* is represented by the string itself.
Md5Hex(str) == [hexlen |-> 32, digest |-> str]

generateMosaicHash(year, bbox) == Md5Hex(ConfigJson(year, bbox))

\* ClientMosaicApi.generateHash: hash = ((hash << 5) - hash) + char, cut to a
\* signed 32-bit integer at every step; then Math.abs(hash).toString(16).
\* The 32 bits are kept as two 16-bit halves <<hi, lo>>; (h << 5) - h is 31 * h.
HashStep(h, c) ==
  LET lo == 31 * h[2] + c
      hi == 31 * h[1] + (lo \div 65536)
  IN <<hi % 65536, lo % 65536>>

\* The loop over the characters: h is the hash before character i.  (The test
\* of h makes the evaluation compute h at every turn, not all at the end.)
RECURSIVE RollingHash(_, _, _)
RollingHash(str, i, h) ==
  IF i > Len(str) \/ h[1] < 0 THEN h ELSE RollingHash(str, i + 1, HashStep(h, str[i]))

\* Math.abs of the signed 32-bit value: the two's complement when bit 31 is set.
Abs32(h) ==
  IF h[1] < 32768 THEN h
  ELSE IF h[2] = 0 THEN <<65536 - h[1], 0>>
  ELSE <<65535 - h[1], 65536 - h[2]>>

\* Number.prototype.toString(16): hex digits (as values 0..15), no leading zeros.
RECURSIVE HexDigits(_)
HexDigits(n) == IF n < 16 THEN <<n>> ELSE HexDigits(n \div 16) \o <<n % 16>>

Hex4(n) == <<n \div 4096, (n \div 256) % 16, (n \div 16) % 16, n % 16>>

ToHex(h) == IF h[1] = 0 THEN HexDigits(h[2]) ELSE HexDigits(h[1]) \o Hex4(h[2])

generateHash(str) ==
  LET hex == ToHex(Abs32(RollingHash(str, 1, <<0, 0>>)))
  IN [hexlen |-> Len(hex), digest |-> hex]

\* Two hashes are the same text (hash === hash).
SameHash(a, b) == a.hexlen = b.hexlen /\ a.digest = b.digest

\* `/api/mosaic-tiles/${hash}/${z}/${x}/${y}.${format}`
TileUrl(hash, z, x, y, format) ==
  [route |-> "/api/mosaic-tiles/", hash |-> hash, z |-> z, x |-> x, y |-> y, format |-> format]

StorageGetTileUrl(year, bbox, z, x, y, format) ==
  TileUrl(generateMosaicHash(year, bbox), z, x, y, format)

ClientGetTileUrl(year, bbox, z, x, y, format) ==
  TileUrl(generateHash(ConfigJson(year, bbox)), z, x, y, format)

SameUrl(u, v) ==
  /\ SameHash(u.hash, v.hash)
  /\ u.z = v.z /\ u.x = v.x /\ u.y = v.y /\ u.format = v.format

(***************************************************************************)
(* LocalMosaicStorage: the files under tilesDir                            *)
(*   tilesDir/{hash}/metadata.json, tilesDir/{hash}/{z}/{x}/{y}.{format}   *)
(* A storage fs is [dirs, meta, tiles].  A metadata file holds the whole   *)
(* text JSON.stringify(info) (complete) or a part of it, left by an        *)
(* interrupted write.  null is <<>>, a value v is <<v>>.                    *)
(***************************************************************************)

Formats == {"png", "jpg", "webp"}

TilePath(hash, z, x, y, format) ==
  [hash |-> hash, z |-> z, x |-> x, y |-> y, format |-> format]

JsonText(info) == [complete |-> TRUE, info |-> <<info>>]

TornText == [complete |-> FALSE, info |-> <<>>]

\* JSON.parse(fs.readFileSync(metadataPath, 'utf8')): the value, or a throw.
JsonParse(text) ==
  IF text.complete THEN [threw |-> FALSE, value |-> text.info]
  ELSE [threw |-> TRUE, value |-> <<>>]

hasMosaicDirOnly(fs, year, bbox) ==
  LET hash == generateMosaicHash(year, bbox)
  IN hash \in fs.dirs

\* fs.existsSync(mosaicDir) && fs.existsSync(metadataPath): the file is not read.
hasMosaic(fs, year, bbox) ==
  LET hash == generateMosaicHash(year, bbox)
  IN hash \in fs.dirs /\ hash \in DOMAIN fs.meta

getMosaicInfo(fs, year, bbox) ==
  LET hash == generateMosaicHash(year, bbox)
  IN IF hash \notin DOMAIN fs.meta THEN <<>>
     ELSE LET parsed == JsonParse(fs.meta[hash])
          IN IF parsed.threw THEN <<>> ELSE parsed.value

\* fs.writeFileSync(metadataPath, text) after mkdir -p of the mosaic directory.
WriteMetadata(fs, hash, text) ==
  [fs EXCEPT !.dirs = @ \cup {hash},
             !.meta = [h \in DOMAIN @ \cup {hash} |-> IF h = hash THEN text ELSE @[h]]]

saveMosaicInfoDirOnly(fs, info) == [fs EXCEPT !.dirs = @ \cup {info.hash}]

saveMosaicInfo(fs, info) == WriteMetadata(fs, info.hash, JsonText(info))

saveTileKeepFirst(fs, year, bbox, z, x, y, tileData, format) ==
  LET path == TilePath(generateMosaicHash(year, bbox), z, x, y, format)
  IN [fs EXCEPT !.dirs = @ \cup {path.hash},
                !.tiles = [p \in DOMAIN @ \cup {path} |->
                             IF p \in DOMAIN @ THEN @[p] ELSE tileData]]

saveTile(fs, year, bbox, z, x, y, tileData, format) ==
  LET path == TilePath(generateMosaicHash(year, bbox), z, x, y, format)
  IN [fs EXCEPT !.dirs = @ \cup {path.hash},
                !.tiles = [p \in DOMAIN @ \cup {path} |-> IF p = path THEN tileData ELSE @[p]]]

\* getTile from the path on: null when no such file, else its bytes.
ReadTile(fs, path) ==
  IF path \notin DOMAIN fs.tiles THEN <<>> ELSE <<fs.tiles[path]>>

getTileOfClientHash(fs, year, bbox, z, x, y, format) ==
  ReadTile(fs, TilePath(generateHash(ConfigJson(year, bbox)), z, x, y, format))

getTile(fs, year, bbox, z, x, y, format) ==
  ReadTile(fs, TilePath(generateMosaicHash(year, bbox), z, x, y, format))

\* fs.readdirSync(tilesDir), in some order.
RECURSIVE ReadDir(_)
ReadDir(names) ==
  IF names = {} THEN <<>>
  ELSE LET d == CHOOSE n \in names : TRUE IN <<d>> \o ReadDir(names \ {d})

RECURSIVE ListLoopNoCatch(_, _, _)
ListLoopNoCatch(fs, entries, mosaics) ==
  IF entries = <<>> THEN [threw |-> FALSE, mosaics |-> mosaics]
  ELSE LET dir == Head(entries)
       IN IF dir \notin DOMAIN fs.meta THEN ListLoopNoCatch(fs, Tail(entries), mosaics)
          ELSE LET parsed == JsonParse(fs.meta[dir])
               IN IF parsed.threw THEN [threw |-> TRUE, mosaics |-> <<>>]
                  ELSE ListLoopNoCatch(fs, Tail(entries), mosaics \o parsed.value)

\* The loop of listMosaics: a metadata.json that does not parse is logged and
\* skipped (the catch inside the loop).
RECURSIVE ListLoop(_, _, _)
ListLoop(fs, entries, mosaics) ==
  IF entries = <<>> THEN [threw |-> FALSE, mosaics |-> mosaics]
  ELSE LET dir == Head(entries)
       IN IF dir \notin DOMAIN fs.meta THEN ListLoop(fs, Tail(entries), mosaics)
          ELSE LET parsed == JsonParse(fs.meta[dir])
               IN IF parsed.threw THEN ListLoop(fs, Tail(entries), mosaics)
                  ELSE ListLoop(fs, Tail(entries), mosaics \o parsed.value)

listMosaics(fs) == ListLoop(fs, ReadDir(fs.dirs), <<>>)

deleteMosaicMetadataOnly(fs, year, bbox) ==
  LET hash == generateMosaicHash(year, bbox)
  IN IF hash \notin fs.dirs THEN fs
     ELSE [fs EXCEPT !.meta = [h \in DOMAIN fs.meta \ {hash} |-> fs.meta[h]]]

deleteMosaicEverything(fs, year, bbox) ==
  LET hash == generateMosaicHash(year, bbox)
  IN IF hash \notin fs.dirs THEN fs
     ELSE [dirs |-> {}, meta |-> [h \in {} |-> TornText], tiles |-> [p \in {} |-> ""]]

\* fs.rmSync(mosaicDir, { recursive: true, force: true }) when it exists.
deleteMosaic(fs, year, bbox) ==
  LET hash == generateMosaicHash(year, bbox)
  IN IF hash \notin fs.dirs THEN fs
     ELSE [dirs |-> fs.dirs \ {hash},
           meta |-> [h \in DOMAIN fs.meta \ {hash} |-> fs.meta[h]],
           tiles |-> [p \in {q \in DOMAIN fs.tiles : q.hash # hash} |-> fs.tiles[p]]]

getStorageStats(fs) ==
  LET listed == listMosaics(fs)
  IN [threw |-> listed.threw, totalMosaics |-> Len(listed.mosaics), mosaics |-> listed.mosaics]

\* The loop of cleanupOldMosaics over the listed records.
RECURSIVE CleanupLoopNotStrict(_, _, _, _)
CleanupLoopNotStrict(fs, mosaics, cutoffDate, deletedCount) ==
  IF mosaics = <<>> THEN [fs |-> fs, deletedCount |-> deletedCount]
  ELSE LET mosaic == Head(mosaics)
       IN IF mosaic.downloadDate <= cutoffDate
          THEN CleanupLoopNotStrict(deleteMosaic(fs, mosaic.year, mosaic.bbox), Tail(mosaics),
                                    cutoffDate, deletedCount + 1)
          ELSE CleanupLoopNotStrict(fs, Tail(mosaics), cutoffDate, deletedCount)

RECURSIVE CleanupLoopCountAll(_, _, _, _)
CleanupLoopCountAll(fs, mosaics, cutoffDate, deletedCount) ==
  IF mosaics = <<>> THEN [fs |-> fs, deletedCount |-> deletedCount]
  ELSE LET mosaic == Head(mosaics)
       IN IF mosaic.downloadDate < cutoffDate
          THEN CleanupLoopCountAll(deleteMosaic(fs, mosaic.year, mosaic.bbox), Tail(mosaics),
                                   cutoffDate, deletedCount + 1)
          ELSE CleanupLoopCountAll(fs, Tail(mosaics), cutoffDate, deletedCount + 1)

RECURSIVE CleanupLoop(_, _, _, _)
CleanupLoop(fs, mosaics, cutoffDate, deletedCount) ==
  IF mosaics = <<>> THEN [fs |-> fs, deletedCount |-> deletedCount]
  ELSE LET mosaic == Head(mosaics)
       IN IF mosaic.downloadDate < cutoffDate
          THEN CleanupLoop(deleteMosaic(fs, mosaic.year, mosaic.bbox), Tail(mosaics),
                           cutoffDate, deletedCount + 1)
          ELSE CleanupLoop(fs, Tail(mosaics), cutoffDate, deletedCount)

\* cutoffDate = new Date() - daysOld days; returns the storage left and the count.
cleanupOldMosaics(fs, today, daysOld) ==
  CleanupLoop(fs, listMosaics(fs).mosaics, today - daysOld, 0)

(***************************************************************************)
(* SentinelMosaicService and MosaicDownloader                              *)
(***************************************************************************)

\* Bounds of the model.
MaxZoom == 1
MaxTime == 1
MaxDays == 1

Runs == {1, 2}

NycBbox == <<-742000, 405000, -738000, 409000>>

\* The keys the callers ask for: a bbox and one that differs from it by 0.0003
\* degrees and rounds to the same coordinates; two years of one bbox.
NearKeys ==
  { [year |-> 2020, bbox |-> NycBbox],
    [year |-> 2020, bbox |-> <<-742003, 405000, -738000, 409000>>] }

YearKeys ==
  { [year |-> 2020, bbox |-> NycBbox],
    [year |-> 2021, bbox |-> NycBbox] }

OneKey == {[year |-> 2020, bbox |-> NycBbox]}

Keys == NearKeys \cup YearKeys

Hashes == {generateMosaicHash(k.year, k.bbox) : k \in Keys}

SceneA == [id |-> "A", cloud |-> 12, sun |-> 30, visual |-> TRUE]
SceneB == [id |-> "B", cloud |-> 5, sun |-> 40, visual |-> TRUE]

\* What the catalog may answer (data.features).
CatalogAnswers == {<<>>, <<SceneA, SceneB>>}

SceneCompareCloudOnly(a, b) == a.cloud - b.cloud

\* The comparator of selectBestScenes: cloud cover ascending, then sun
\* elevation descending.
SceneCompare(a, b) ==
  IF a.cloud - b.cloud # 0 THEN a.cloud - b.cloud ELSE b.sun - a.sun

\* Array.prototype.sort is stable: insert each item after the items that do not
\* compare greater.
RECURSIVE InsertScene(_, _)
InsertScene(sorted, item) ==
  IF sorted = <<>> THEN <<item>>
  ELSE IF SceneCompare(Head(sorted), item) <= 0
       THEN <<Head(sorted)>> \o InsertScene(Tail(sorted), item)
       ELSE <<item>> \o sorted

RECURSIVE SortScenes(_)
SortScenes(items) ==
  IF items = <<>> THEN <<>>
  ELSE InsertScene(SortScenes(SubSeq(items, 1, Len(items) - 1)), items[Len(items)])

selectBestScenes(items, maxScenes) ==
  LET sorted == SortScenes(items)
  IN SubSeq(sorted, 1, IF Len(sorted) < maxScenes THEN Len(sorted) ELSE maxScenes)

\* getMosaicConfig: the limits of the bbox area (square degrees) and of the
\* cloud cover (percent).
BboxAreaLimit == 10000
MaxCloudCover == 20

\* Math.max(lo, Math.min(hi, v))
Clamp(lo, hi, v) == IF v > hi THEN hi ELSE IF v < lo THEN lo ELSE v

\* dw * dh > limit, for dw and dh in 0.0001 degrees and limit in square
\* degrees; the product is taken in parts of four decimal digits so that it
\* stays within 32 bits.
AreaExceeds(dw, dh, limit) ==
  IF dw = 0 \/ dh = 0 \/ (dw < 0) # (dh < 0) THEN FALSE
  ELSE LET w == IF dw < 0 THEN 0 - dw ELSE dw
           h == IF dh < 0 THEN 0 - dh ELSE dh
           a == w \div 10000
           b == w % 10000
           c == h \div 10000
           d == h % 10000
           mid == a * d + b * c
           low == b * d
           carry == ((mid % 10000) + (low \div 10000)) \div 10000
           rest == 10000 * (((mid % 10000) + (low \div 10000)) % 10000) + (low % 10000)
           high == a * c + (mid \div 10000) + carry
       IN high > limit \/ (high = limit /\ rest > 0)

\* getMosaicConfig(year, bbox): the bbox is cut to the limits of longitude
\* and latitude, and replaced by the New York default when its area is over
\* the limit; the dates are the first and the last day of the year.
getMosaicConfig(year, bbox) ==
  LET constrainedBbox == << Clamp(-1800000, 1800000, bbox[1]), Clamp(-900000, 900000, bbox[2]),
                            Clamp(-1800000, 1800000, bbox[3]), Clamp(-900000, 900000, bbox[4]) >>
      tooLarge == AreaExceeds(constrainedBbox[3] - constrainedBbox[1],
                              constrainedBbox[4] - constrainedBbox[2], BboxAreaLimit)
  IN [year |-> year,
      bbox |-> IF tooLarge THEN <<-742000, 405000, -738000, 409000>> ELSE constrainedBbox,
      cloudCover |-> MaxCloudCover,
      startDate |-> [year |-> year, month |-> 1, day |-> 1],
      endDate |-> [year |-> year, month |-> 12, day |-> 31]]

\* Math.round(a / b) for a >= 0, b > 0.
RoundDiv(a, b) == (2 * a + b) \div (2 * b)

ProgressCountdown(stage, progress) == [stage |-> stage, progress |-> 100 - progress]

\* reportProgress: the event handed to onProgress.
Progress(stage, progress) == [stage |-> stage, progress |-> progress]

Storage == [dirs |-> dirs, meta |-> meta, tiles |-> tiles]

IdleRun ==
  [pc |-> "idle", year |-> 0, bbox |-> <<>>, maxZoom |-> 0, best |-> <<>>, i |-> 0,
   processed |-> <<>>, z |-> 0, x |-> 0, y |-> 0, tileCount |-> 0, info |-> <<>>,
   queries |-> 0, fetches |-> 0, writes |-> 0, events |-> <<>>, result |-> <<>>,
   hadMosaic |-> FALSE, error |-> "", dropped |-> <<>>, renderErrors |-> 0,
   config |-> <<>>, asked |-> <<>>]

NoHash == [hexlen |-> 0, digest |-> <<>>]

NoCall ==
  [op |-> "none", hash |-> NoHash, arg |-> <<>>, ret |-> 0, data |-> "",
   again |-> FALSE, before |-> 0, beforeData |-> ""]

\* The last call that wrote to the storage since the clock last advanced: its
\* name, the hash and arguments it was given, the number it returned and the
\* bytes it wrote.  again tells that the call before it was the same call with
\* the same arguments; before and beforeData are what that one returned and wrote.
Call(op, hash, arg, ret, data) ==
  LET again == ops.op = op /\ ops.hash = hash /\ ops.arg = arg
  IN [op |-> op, hash |-> hash, arg |-> arg, ret |-> ret, data |-> data,
      again |-> again,
      before |-> IF again THEN ops.ret ELSE 0,
      beforeData |-> IF again THEN ops.data ELSE ""]

\* No request answered yet.
NoResponse == [req |-> <<>>, status |-> 0, body |-> "", lookups |-> 0, reads |-> 0]

\* No error: an error is its name and its message.
NoError == [name |-> "", message |-> <<>>]

\* No fetchWithTimeout call made yet.
IdleFetch ==
  [pc |-> "idle", timeout |-> 0, retries |-> 0, retryDelay |-> 0, attempt |-> 0,
   attempts |-> 0, outcomes |-> <<>>, waits |-> <<>>, elapsed |-> 0,
   status |-> 0, error |-> NoError]

\* No wayback request made yet.  An answer is its status and the fields of its
\* JSON body; a url is the tile service it names and the release it pins.
NoUrl == [service |-> "", releaseId |-> 0]

NoWayback ==
  [pc |-> "idle", route |-> "", year |-> 0, upstream |-> "", pinned |-> FALSE, status |-> 0,
   body |-> "", url |-> NoUrl, attribution |-> "", releaseId |-> <<>>, releaseDate |-> <<>>]

Init ==
  /\ now = 0
  /\ dirs = {}
  /\ meta = [h \in {} |-> TornText]
  /\ tiles = [p \in {} |-> ""]
  /\ run = [r \in Runs |-> IdleRun]
  /\ infoEver = {}
  /\ ops = NoCall
  /\ pin = <<>>
  /\ pout = <<>>
  /\ response = NoResponse
  /\ fetch = IdleFetch
  /\ wayback = NoWayback

Tick ==
  /\ now < MaxTime
  /\ now' = now + 1
  /\ ops' = NoCall
  /\ UNCHANGED <<dirs, meta, tiles, run, infoEver, pin, pout, response, fetch, wayback>>

\* downloadMosaic, lines 32-42: the 'searching' event and the cache check.
StartDownload(r, year, bbox, maxZoom) ==
  /\ run[r].pc \in {"idle", "done", "failed"}
  /\ LET existingMosaic == getMosaicInfo(Storage, year, bbox)
         fresh == [IdleRun EXCEPT !.year = year, !.bbox = bbox, !.maxZoom = maxZoom,
                                  !.hadMosaic = hasMosaic(Storage, year, bbox),
                                  !.config = <<getMosaicConfig(year, bbox)>>]
     IN IF existingMosaic # <<>>
        THEN run' = [run EXCEPT ![r] =
               [fresh EXCEPT !.pc = "done",
                             !.events = <<Progress("searching", 0), Progress("complete", 100)>>,
                             !.result = existingMosaic]]
        ELSE run' = [run EXCEPT ![r] =
               [fresh EXCEPT !.pc = "search", !.events = <<Progress("searching", 0)>>]]
  /\ UNCHANGED <<now, dirs, meta, tiles, infoEver, ops, pin, pout, response, fetch, wayback>>

\* querySentinelData: the bbox and the datetime range of the search.
CatalogQuery(config) ==
  [bbox |-> config.bbox, startDate |-> config.startDate, endDate |-> config.endDate,
   cloudCover |-> config.cloudCover]

SearchCompletesOnEmpty(r, rejected, answer) ==
  /\ run[r].pc = "search"
  /\ IF rejected
     THEN run' = [run EXCEPT ![r].pc = "failed", ![r].queries = @ + 1,
                             ![r].error = "STAC API error"]
     ELSE run' = [run EXCEPT ![r].pc = IF answer = <<>> THEN "done" ELSE "process",
                             ![r].queries = @ + 1,
                             ![r].best = selectBestScenes(answer, 5),
                             ![r].i = 1,
                             ![r].events = Append(@, IF answer = <<>> THEN Progress("complete", 100)
                                                     ELSE Progress("downloading", 20))]
  /\ UNCHANGED <<now, dirs, meta, tiles, infoEver, ops, pin, pout, response, fetch, wayback>>

\* downloadMosaic, lines 44-54: the catalog query and the selection.
\* The query rejects (network error, non-OK answer) or answers with items;
\* no items is the 'No Sentinel-2 data found' error.
Search(r, rejected, answer) ==
  /\ run[r].pc = "search"
  /\ IF rejected \/ answer = <<>>
     THEN run' = [run EXCEPT ![r].pc = "failed",
                             ![r].queries = @ + 1,
                             ![r].asked = <<CatalogQuery(run[r].config[1])>>,
                             ![r].error = IF rejected THEN "STAC API error"
                                          ELSE "No Sentinel-2 data found"]
     ELSE run' = [run EXCEPT ![r].pc = "process",
                             ![r].queries = @ + 1,
                             ![r].asked = <<CatalogQuery(run[r].config[1])>>,
                             ![r].best = selectBestScenes(answer, 5),
                             ![r].i = 1,
                             ![r].events = Append(@, Progress("downloading", 20))]
  /\ UNCHANGED <<now, dirs, meta, tiles, infoEver, ops, pin, pout, response, fetch, wayback>>

ProcessSceneThrows(r, fetched) ==
  /\ run[r].pc = "process"
  /\ LET me == run[r]
         scene == me.best[me.i]
         n == Len(me.best)
         event == Progress("downloading", 20 + RoundDiv((me.i - 1) * 40, n))
         last == me.i = n
     IN run' = [run EXCEPT ![r] =
          [me EXCEPT !.i = @ + 1,
                     !.fetches = IF scene.visual THEN @ + 1 ELSE @,
                     !.processed = IF scene.visual /\ fetched THEN Append(@, scene.id) ELSE @,
                     !.dropped = IF scene.visual /\ fetched THEN @ ELSE Append(@, scene.id),
                     !.events = IF last /\ fetched THEN @ \o <<event, Progress("tiling", 60)>>
                                ELSE Append(@, event),
                     !.error = IF fetched THEN @ ELSE "fetch failed",
                     !.pc = IF ~fetched THEN "failed" ELSE IF last THEN "tiling" ELSE "process"]]
  /\ UNCHANGED <<now, dirs, meta, tiles, infoEver, ops, pin, pout, response, fetch, wayback>>

\* processScenes, one turn of its loop: the scene is fetched and normalized, or
\* the fetch answers non-OK or something throws and the scene is left out.
\* After the last scene: the 'tiling' event of line 59.
ProcessScene(r, fetched) ==
  /\ run[r].pc = "process"
  /\ LET me == run[r]
         scene == me.best[me.i]
         n == Len(me.best)
         event == Progress("downloading", 20 + RoundDiv((me.i - 1) * 40, n))
         last == me.i = n
     IN run' = [run EXCEPT ![r] =
          [me EXCEPT !.i = @ + 1,
                     !.fetches = IF scene.visual THEN @ + 1 ELSE @,
                     !.processed = IF scene.visual /\ fetched THEN Append(@, scene.id) ELSE @,
                     !.dropped = IF scene.visual /\ fetched THEN @ ELSE Append(@, scene.id),
                     !.events = IF last THEN @ \o <<event, Progress("tiling", 60)>>
                                ELSE Append(@, event),
                     !.pc = IF last THEN "tiling" ELSE "process"]]
  /\ UNCHANGED <<now, dirs, meta, tiles, infoEver, ops, pin, pout, response, fetch, wayback>>

Pow2Linear(z) == z + 1

\* 2^z
RECURSIVE Pow2(_)
Pow2(z) == IF z = 0 THEN 1 ELSE 2 * Pow2(z - 1)

generateTileBlankOnEmpty(scenes, rendered) ==
  IF scenes = <<>> THEN <<"blank">>
  ELSE IF rendered THEN <<scenes[1]>> ELSE <<>>

\* generateTileFromScenes: null without scenes or when sharp throws; else the
\* first scene rendered as a PNG (the same bytes for every z, x, y).
generateTileFromScenes(scenes, rendered) ==
  IF scenes = <<>> THEN <<>>
  ELSE IF rendered THEN <<scenes[1]>> ELSE <<>>

\* generateTiles, one turn of its loops: tile (z, x, y) is rendered and saved.
\* A saveTile that throws (written = FALSE) rejects the whole download.
GenerateTile(r, rendered, written) ==
  /\ run[r].pc = "tiling"
  /\ LET me == run[r]
         side == Pow2(me.z)
         progress == 60 + RoundDiv(me.z * 35, me.maxZoom + 1)
         tileData == generateTileFromScenes(me.processed, rendered)
         zoomEvent == IF me.x = 0 /\ me.y = 0 THEN <<Progress("tiling", progress)>> ELSE <<>>
         lastY == me.y + 1 = side
         lastX == lastY /\ me.x + 1 = side
         lastZ == lastX /\ me.z = me.maxZoom
         path == TilePath(generateMosaicHash(me.year, me.bbox), me.z, me.x, me.y, "png")
     IN IF tileData # <<>> /\ ~written
        THEN /\ run' = [run EXCEPT ![r].pc = "failed",
                                   ![r].events = @ \o zoomEvent,
                                   ![r].error = "saveTile failed"]
             /\ UNCHANGED <<dirs, meta, tiles, ops>>
        ELSE /\ run' = [run EXCEPT ![r] =
                  [me EXCEPT !.y = IF lastY THEN 0 ELSE @ + 1,
                             !.x = IF lastX THEN 0 ELSE IF lastY THEN @ + 1 ELSE @,
                             !.z = IF lastX THEN @ + 1 ELSE @,
                             !.tileCount = IF tileData # <<>> THEN @ + 1 ELSE @,
                             !.writes = IF tileData # <<>> THEN @ + 1 ELSE @,
                             !.renderErrors = IF me.processed # <<>> /\ tileData = <<>>
                                              THEN @ + 1 ELSE @,
                             !.events = @ \o zoomEvent \o <<Progress("tiling", progress)>>,
                             !.pc = IF lastZ THEN "measure" ELSE "tiling"]]
             /\ IF tileData # <<>>
                THEN LET fs == saveTile(Storage, me.year, me.bbox, me.z, me.x, me.y,
                                        tileData[1], "png")
                     IN /\ dirs' = fs.dirs
                        /\ meta' = fs.meta
                        /\ tiles' = fs.tiles
                        /\ ops' = Call("saveTile", path.hash, <<me.z, me.x, me.y>>, 0, tileData[1])
                ELSE UNCHANGED <<dirs, meta, tiles, ops>>
  /\ UNCHANGED <<now, infoEver, pin, pout, response, fetch, wayback>>

\* calculateTotalSize: the files under the mosaic directory, metadata.json
\* included; the size is kept as the number of files of each kind.
calculateTotalSize(fs, year, bbox) ==
  LET hash == generateMosaicHash(year, bbox)
  IN IF hash \notin fs.dirs THEN [tileFiles |-> 0, metadataFiles |-> 0]
     ELSE [tileFiles |-> Cardinality({p \in DOMAIN fs.tiles : p.hash = hash}),
           metadataFiles |-> IF hash \in DOMAIN fs.meta THEN 1 ELSE 0]

\* downloadMosaic, lines 71-79: the record is built.
BuildInfo(r) ==
  /\ run[r].pc = "measure"
  /\ LET me == run[r]
         mosaicInfo == [year |-> me.year,
                        bbox |-> me.bbox,
                        hash |-> generateMosaicHash(me.year, me.bbox),
                        downloadDate |-> now,
                        tileCount |-> me.tileCount,
                        totalSize |-> calculateTotalSize(Storage, me.year, me.bbox),
                        scenes |-> [j \in 1..Len(me.best) |-> me.best[j].id]]
     IN run' = [run EXCEPT ![r].pc = "saveInfo", ![r].info = <<mosaicInfo>>]
  /\ UNCHANGED <<now, dirs, meta, tiles, infoEver, ops, pin, pout, response, fetch, wayback>>

\* downloadMosaic, lines 82-86: the record is saved and returned.
SaveInfo(r) ==
  /\ run[r].pc = "saveInfo"
  /\ LET me == run[r]
         fs == saveMosaicInfo(Storage, me.info[1])
     IN /\ dirs' = fs.dirs
        /\ meta' = fs.meta
        /\ tiles' = fs.tiles
        /\ infoEver' = infoEver \cup {me.info[1].hash}
        /\ ops' = Call("saveMosaicInfo", me.info[1].hash, <<>>, 0, "")
        /\ run' = [run EXCEPT ![r].pc = "done",
                              ![r].events = Append(@, Progress("complete", 100)),
                              ![r].result = me.info]
  /\ UNCHANGED <<now, pin, pout, response, fetch, wayback>>

\* The process dies inside writeFileSync of saveMosaicInfo: a part of the text
\* is on disk and the run is gone.
SaveInfoInterrupted(r) ==
  /\ run[r].pc = "saveInfo"
  /\ LET me == run[r]
         fs == WriteMetadata(Storage, me.info[1].hash, TornText)
     IN /\ dirs' = fs.dirs
        /\ meta' = fs.meta
        /\ tiles' = fs.tiles
        /\ infoEver' = infoEver \cup {me.info[1].hash}
        /\ ops' = Call("interrupted", me.info[1].hash, <<>>, 0, "")
        /\ run' = [run EXCEPT ![r] = IdleRun]
  /\ UNCHANGED <<now, pin, pout, response, fetch, wayback>>

\* The caller abandons a download in flight, or its process dies.
Abandon(r) ==
  /\ run[r].pc \in {"search", "process", "tiling", "measure", "saveInfo"}
  /\ run' = [run EXCEPT ![r] = IdleRun]
  /\ UNCHANGED <<now, dirs, meta, tiles, infoEver, ops, pin, pout, response, fetch, wayback>>

\* cleanupMosaics of the command line: cleanupOldMosaics(daysOld).
Cleanup(daysOld) ==
  LET done == cleanupOldMosaics(Storage, now, daysOld)
  IN /\ dirs' = done.fs.dirs
     /\ meta' = done.fs.meta
     /\ tiles' = done.fs.tiles
     /\ ops' = Call("cleanup", NoHash, <<daysOld>>, done.deletedCount, "")
     /\ UNCHANGED <<now, run, infoEver, pin, pout, response, fetch, wayback>>

\* deleteMosaic(year, bbox), called on its own; the number kept of the call is
\* the number of directories it removed.
Delete(year, bbox) ==
  LET hash == generateMosaicHash(year, bbox)
      fs == deleteMosaic(Storage, year, bbox)
  IN /\ dirs' = fs.dirs
     /\ meta' = fs.meta
     /\ tiles' = fs.tiles
     /\ ops' = Call("deleteMosaic", hash, <<>>, IF hash \in dirs THEN 1 ELSE 0, "")
     /\ UNCHANGED <<now, run, infoEver, pin, pout, response, fetch, wayback>>

\* The steps of the download r of one of the keys, to the zoom level maxZoom.
\* outcomes are the ways a request or a write can end: TRUE it succeeds, FALSE
\* it fails.
DownloadSteps(r, keys, maxZoom, outcomes) ==
  \/ \E k \in keys : StartDownload(r, k.year, k.bbox, maxZoom)
  \/ \E answered \in outcomes, answer \in CatalogAnswers : Search(r, ~answered, answer)
  \/ \E fetched \in outcomes : ProcessScene(r, fetched)
  \/ \E written \in outcomes : GenerateTile(r, TRUE, written)
  \/ BuildInfo(r)
  \/ SaveInfo(r)
  \/ Abandon(r)

\* The same, in a process that can die while it writes the record.
Download(r, keys, maxZoom) ==
  \/ DownloadSteps(r, keys, maxZoom, BOOLEAN)
  \/ SaveInfoInterrupted(r)

\* One download at a time (downloadMosaicsForYears awaits each in turn), the
\* clock and the cleanup command.
Next ==
  \/ Tick
  \/ Download(1, NearKeys, MaxZoom)
  \/ \E d \in 0..MaxDays : Cleanup(d)

Spec == Init /\ [][Next]_vars

\* The same with two mosaics in the storage, each of one tile.
NextStore ==
  \/ Tick
  \/ Download(1, YearKeys, 0)
  \/ \E d \in 0..MaxDays : Cleanup(d)

SpecStore == Init /\ [][NextStore]_vars

\* The storage of two mosaics with deleteMosaic called from outside.
NextDelete ==
  \/ Download(1, YearKeys, 0)
  \/ \E k \in YearKeys : Delete(k.year, k.bbox)

SpecDelete == Init /\ [][NextDelete]_vars

\* Two downloads at once, each of its own key, while deleteMosaic is called
\* on the first key from outside; the requests and writes of the first
\* download may fail, those of the second succeed.
KeyA == {[year |-> 2020, bbox |-> NycBbox]}
KeyB == {[year |-> 2021, bbox |-> NycBbox]}

NextFrame ==
  \/ DownloadSteps(1, KeyA, 0, BOOLEAN)
  \/ DownloadSteps(2, KeyB, 0, {TRUE})
  \/ \E k \in KeyA : Delete(k.year, k.bbox)

SpecFrame == Init /\ [][NextFrame]_vars

\* The catalog (sentinelMosaic.ts line 81) or the host of a scene asset
\* (part_009 line 102) never answers: the fetch was made without an abort
\* signal or a timer, so its await never settles and the download stays there.
NeverAnswered(r) ==
  /\ run[r].pc \in {"search", "process"}
  /\ run' = [run EXCEPT ![r].pc = "hung",
                         ![r].queries = IF run[r].pc = "search" THEN @ + 1 ELSE @,
                         ![r].fetches = IF run[r].pc = "process" THEN @ + 1 ELSE @]
  /\ UNCHANGED <<now, dirs, meta, tiles, infoEver, ops, pin, pout, response, fetch, wayback>>

\* One download at a time that nobody abandons, against hosts that answer,
\* fail or never answer.  Every step the download can take is taken in the
\* end: the event loop runs what is ready.
NextLive ==
  \/ \E k \in OneKey : StartDownload(1, k.year, k.bbox, MaxZoom)
  \/ \E answered \in BOOLEAN, answer \in CatalogAnswers : Search(1, ~answered, answer)
  \/ \E fetched \in BOOLEAN : ProcessScene(1, fetched)
  \/ \E written \in BOOLEAN : GenerateTile(1, TRUE, written)
  \/ BuildInfo(1)
  \/ SaveInfo(1)
  \/ NeverAnswered(1)

SpecLive == Init /\ [][NextLive]_vars /\ WF_vars(NextLive)

\* Downloads of bboxes inside, at and beyond the limits of getMosaicConfig:
\* New York, the whole globe, a bbox that starts west of -180 degrees.
GlobeBbox == <<-1800000, -900000, 1800000, 900000>>
WestOfLimitBbox == <<-1810000, 405000, -1798000, 409000>>

ConfigKeys ==
  { [year |-> 2020, bbox |-> NycBbox],
    [year |-> 2020, bbox |-> GlobeBbox],
    [year |-> 2021, bbox |-> WestOfLimitBbox] }

NextConfig == DownloadSteps(1, ConfigKeys, 0, BOOLEAN)

SpecConfig == Init /\ [][NextConfig]_vars

\* One download to zoom level TileZoom whose requests and writes succeed; at
\* most MaxRenderErrors of its tiles fail to render.
TileZoom == 2
MaxRenderErrors == 1

NextTiles ==
  \/ \E k \in OneKey : StartDownload(1, k.year, k.bbox, TileZoom)
  \/ \E answer \in CatalogAnswers : Search(1, FALSE, answer)
  \/ \E fetched \in BOOLEAN : ProcessScene(1, fetched)
  \/ GenerateTile(1, TRUE, TRUE)
  \/ (run[1].renderErrors < MaxRenderErrors /\ GenerateTile(1, FALSE, TRUE))
  \/ BuildInfo(1)
  \/ SaveInfo(1)

SpecTiles == Init /\ [][NextTiles]_vars

\* Two downloads of one key started concurrently in one process (nothing locks
\* a key), with every request and write succeeding.
NextPair ==
  \/ DownloadSteps(1, OneKey, MaxZoom, {TRUE})
  \/ DownloadSteps(2, OneKey, MaxZoom, {TRUE})

SpecPair == Init /\ [][NextPair]_vars

(***************************************************************************)
(* The tile route: GET /api/mosaic-tiles/{hash}/{z}/{x}/{y}.{ext}          *)
(* A request is [hash, segs]: the hash segment and the segments after it,  *)
(* each a string of character codes.                                       *)
(***************************************************************************)

IsDigit(c) == c \in 48..57

\* The value of the digits of str from position i on, up to the first
\* character that is no digit.
RECURSIVE ParseDigits(_, _, _)
ParseDigits(str, i, acc) ==
  IF i > Len(str) THEN acc
  ELSE IF ~IsDigit(str[i]) THEN acc
  ELSE ParseDigits(str, i + 1, 10 * acc + (str[i] - 48))

\* Leading white space is skipped.
RECURSIVE TrimStart(_)
TrimStart(str) ==
  IF str = <<>> THEN str
  ELSE IF str[1] = 32 THEN TrimStart(Tail(str)) ELSE str

\* parseInt(str) of a string without the prefix 0x: an optional sign, then
\* the longest run of digits; what follows is ignored.  NaN is <<>>.
ParseInt(str) ==
  LET t == TrimStart(str)
      signed == t # <<>> /\ t[1] \in {43, 45}
      start == IF signed THEN 2 ELSE 1
      value == ParseDigits(t, start, 0)
  IN IF start > Len(t) THEN <<>>
     ELSE IF ~IsDigit(t[start]) THEN <<>>
     ELSE IF signed /\ t[1] = 45 THEN <<0 - value>> ELSE <<value>>

\* str.split('.')
RECURSIVE SplitDot(_, _)
SplitDot(str, part) ==
  IF str = <<>> THEN <<part>>
  ELSE IF str[1] = 46 THEN <<part>> \o SplitDot(Tail(str), <<>>)
  ELSE SplitDot(Tail(str), Append(part, str[1]))

PngExt == <<112, 110, 103>>
JpgExt == <<106, 112, 103>>
WebpExt == <<119, 101, 98, 112>>
BmpExt == <<98, 109, 112>>

\* ['png', 'jpg', 'webp'].includes(format)
FormatOf(ext) ==
  IF ext = PngExt THEN <<"png">>
  ELSE IF ext = JpgExt THEN <<"jpg">>
  ELSE IF ext = WebpExt THEN <<"webp">>
  ELSE <<>>

Answer(req, status, body, lookups, reads) ==
  [req |-> <<req>>, status |-> status, body |-> body, lookups |-> lookups, reads |-> reads]

\* mosaics.find(m => m.hash === hash): the first record with the hash.
RECURSIVE FindMosaic(_, _)
FindMosaic(mosaics, hash) ==
  IF mosaics = <<>> THEN <<>>
  ELSE IF SameHash(Head(mosaics).hash, hash) THEN <<Head(mosaics)>>
  ELSE FindMosaic(Tail(mosaics), hash)

\* The route with the lookup of the mosaic before the test of the format.
TileRouteLookupFirst(fs, req) ==
  IF 1 + Len(req.segs) < 4 THEN Answer(req, 400, "Invalid tile path", 0, 0)
  ELSE
    LET parts == SplitDot(req.segs[3], <<>>)
        y == parts[1]
        ext == IF Len(parts) >= 2 THEN parts[2] ELSE <<>>
        zoom == ParseInt(req.segs[1])
        tileX == ParseInt(req.segs[2])
        tileY == ParseInt(y)
        listed == listMosaics(fs)
        mosaic == FindMosaic(listed.mosaics, req.hash)
    IN IF y = <<>> \/ ext = <<>> THEN Answer(req, 400, "Invalid tile parameters", 0, 0)
       ELSE IF zoom = <<>> \/ tileX = <<>> \/ tileY = <<>>
         THEN Answer(req, 400, "Invalid tile coordinates", 0, 0)
       ELSE IF listed.threw THEN Answer(req, 500, "Internal Server Error", 1, 0)
       ELSE IF mosaic = <<>> THEN Answer(req, 404, "Mosaic not found", 1, 0)
       ELSE IF FormatOf(ext) = <<>> THEN Answer(req, 400, "Unsupported format", 1, 0)
       ELSE IF getTile(fs, mosaic[1].year, mosaic[1].bbox, zoom[1], tileX[1], tileY[1],
                       FormatOf(ext)[1]) = <<>>
         THEN Answer(req, 404, "Tile not found", 1, 1)
       ELSE Answer(req, 200, getTile(fs, mosaic[1].year, mosaic[1].bbox, zoom[1], tileX[1],
                                     tileY[1], FormatOf(ext)[1])[1], 1, 1)

\* GET of the tile route: the answer, with the number of listMosaics and
\* getTile calls it made; the body of a 200 answer is the bytes of the tile.
TileRoute(fs, req) ==
  IF 1 + Len(req.segs) < 4 THEN Answer(req, 400, "Invalid tile path", 0, 0)
  ELSE
    LET parts == SplitDot(req.segs[3], <<>>)
        y == parts[1]
        ext == IF Len(parts) >= 2 THEN parts[2] ELSE <<>>
        zoom == ParseInt(req.segs[1])
        tileX == ParseInt(req.segs[2])
        tileY == ParseInt(y)
        listed == listMosaics(fs)
        mosaic == FindMosaic(listed.mosaics, req.hash)
    IN IF y = <<>> \/ ext = <<>> THEN Answer(req, 400, "Invalid tile parameters", 0, 0)
       ELSE IF zoom = <<>> \/ tileX = <<>> \/ tileY = <<>>
         THEN Answer(req, 400, "Invalid tile coordinates", 0, 0)
       ELSE IF FormatOf(ext) = <<>> THEN Answer(req, 400, "Unsupported format", 0, 0)
       ELSE IF listed.threw THEN Answer(req, 500, "Internal Server Error", 1, 0)
       ELSE IF mosaic = <<>> THEN Answer(req, 404, "Mosaic not found", 1, 0)
       ELSE IF getTile(fs, mosaic[1].year, mosaic[1].bbox, zoom[1], tileX[1], tileY[1],
                       FormatOf(ext)[1]) = <<>>
         THEN Answer(req, 404, "Tile not found", 1, 1)
       ELSE Answer(req, 200, getTile(fs, mosaic[1].year, mosaic[1].bbox, zoom[1], tileX[1],
                                     tileY[1], FormatOf(ext)[1])[1], 1, 1)

\* The requests: the hash of the stored key as the storage and as the client
\* derive it; zoom, x and y as digits, signed, with trailing letters, without
\* digits; extensions in and out of the allow-list, or none; a short path.
RequestHashes ==
  {generateMosaicHash(k.year, k.bbox) : k \in OneKey}
    \cup {generateHash(ConfigJson(k.year, k.bbox)) : k \in OneKey}

ZoomSegs == {<<48>>, <<49, 120>>, <<45, 49>>, <<97>>}
XSegs == {<<48>>, <<53>>, <<97>>}
YSegs == {<<48>>, <<48, 46>> \o PngExt, <<48, 46>> \o JpgExt, <<48, 46>> \o BmpExt,
          <<49, 46>> \o PngExt, <<46>> \o PngExt}

Requests ==
  {[hash |-> h, segs |-> <<z, x, y>>] : h \in RequestHashes, z \in ZoomSegs, x \in XSegs, y \in YSegs}
    \cup {[hash |-> h, segs |-> <<z, x>>] : h \in RequestHashes, z \in {<<48>>}, x \in {<<48>>}}

Request(req) ==
  /\ response' = TileRoute(Storage, req)
  /\ UNCHANGED <<now, dirs, meta, tiles, run, infoEver, ops, pin, pout, fetch, wayback>>

\* The route serving the cache of one key while the key is downloaded by a
\* process whose requests and writes succeed but that can die while it
\* writes the record.
NextRoute ==
  \/ DownloadSteps(1, OneKey, 0, {TRUE})
  \/ SaveInfoInterrupted(1)
  \/ \E req \in Requests : Request(req)

SpecRoute == Init /\ [][NextRoute]_vars

\* The extension a format is written as in a tile URL.
ExtOf(format) ==
  IF format = "png" THEN PngExt ELSE IF format = "jpg" THEN JpgExt ELSE WebpExt

\* The request a client makes with a URL of getTileUrl: the path
\* `/api/mosaic-tiles/${hash}/${z}/${x}/${y}.${format}` cut at its slashes.
RequestOf(url) ==
  [hash |-> url.hash,
   segs |-> <<Digits(url.z), Digits(url.x), Digits(url.y) \o <<46>> \o ExtOf(url.format)>>]

\* A client asks for a tile of a key with the URL LocalMosaicStorage.getTileUrl
\* gives it.
RequestTile(year, bbox, z, x, y, format) ==
  /\ response' = TileRoute(Storage, RequestOf(StorageGetTileUrl(year, bbox, z, x, y, format)))
  /\ UNCHANGED <<now, dirs, meta, tiles, run, infoEver, ops, pin, pout, fetch, wayback>>

\* The route serving the tiles of the keys while they are downloaded to zoom
\* level MaxZoom; a scene can fail to download.
NextServe ==
  \/ DownloadSteps(1, NearKeys, MaxZoom, {TRUE})
  \/ ProcessScene(1, FALSE)
  \/ \E k \in NearKeys, z \in 0..MaxZoom, y \in 0..(Pow2(MaxZoom) - 1), format \in {"png", "jpg"} :
        y < Pow2(z) /\ RequestTile(k.year, k.bbox, z, 0, y, format)

SpecServe == Init /\ [][NextServe]_vars

(***************************************************************************)
(* fetchWithTimeout(url, { timeout, retries, retryDelay })                 *)
(* Times are in milliseconds; elapsed adds up the timers that ran out      *)
(* (the abort timer of an attempt, the backoff delay).                     *)
(***************************************************************************)

DefaultTimeout == 5000
DefaultRetries == 2
DefaultRetryDelay == 1000

\* 'status:'
StatusMark == <<115, 116, 97, 116, 117, 115, 58>>

\* 'Server error: '
ServerErrorPrefix == <<83, 101, 114, 118, 101, 114, 32, 101, 114, 114, 111, 114, 58, 32>>

\* 'Request timeout'
RequestTimeoutMessage == <<82, 101, 113, 117, 101, 115, 116, 32, 116, 105, 109, 101, 111, 117, 116>>

\* The position of the first occurrence of sub in str from i on, or 0.
RECURSIVE IndexOf(_, _, _)
IndexOf(str, sub, i) ==
  IF i + Len(sub) - 1 > Len(str) THEN 0
  ELSE IF SubSeq(str, i, i + Len(sub) - 1) = sub THEN i
  ELSE IndexOf(str, sub, i + 1)

\* message.includes(sub)
Includes(str, sub) == IndexOf(str, sub, 1) > 0

\* message.split('status:')[1]: what follows the first mark, up to the next.
AfterStatusMark(message) ==
  LET at == IndexOf(message, StatusMark, 1)
      rest == SubSeq(message, at + Len(StatusMark), Len(message))
      next == IndexOf(rest, StatusMark, 1)
  IN IF next = 0 THEN rest ELSE SubSeq(rest, 1, next - 1)

\* What one fetch(url, { signal }) can do: answer 200, 404 or 503, reject with
\* a network error, or hang until the abort timer fires.
FetchOutcomes ==
  { [label |-> "ok", status |-> 200, error |-> NoError],
    [label |-> "client", status |-> 404, error |-> NoError],
    [label |-> "server", status |-> 503, error |-> NoError],
    [label |-> "network", status |-> 0,
     error |-> [name |-> "TypeError", message |-> <<102, 101, 116, 99, 104, 32, 102, 97, 105, 108, 101, 100>>]],
    [label |-> "timeout", status |-> 0,
     error |-> [name |-> "AbortError", message |-> <<84, 104, 105, 115, 32, 111, 112, 101, 114, 97, 116, 105, 111, 110, 32, 119, 97, 115, 32, 97, 98, 111, 114, 116, 101, 100>>]] }

\* new Error(`Server error: ${response.status}`)
ServerError(status) == [name |-> "Error", message |-> ServerErrorPrefix \o Digits(status)]

\* The inner catch (lines 58-67): an AbortError becomes Error('Request timeout').
InnerCatch(error) ==
  IF error.name = "AbortError" THEN [name |-> "Error", message |-> RequestTimeoutMessage]
  ELSE error

\* The test of lines 72-76: the error is thrown on without a retry.
NoRetryFor(lastError) ==
  \/ lastError.name = "AbortError"
  \/ /\ Includes(lastError.message, StatusMark)
     /\ LET text == TrimStart(AfterStatusMark(lastError.message))
            code == ParseInt(IF text = <<>> THEN <<48>> ELSE text)
        IN code # <<>> /\ code[1] < 500

\* The call at its first attempt.
StartedFetch(timeout, retries, retryDelay) ==
  [IdleFetch EXCEPT !.pc = "fetching", !.timeout = timeout, !.retries = retries,
                    !.retryDelay = retryDelay, !.attempts = 1]

\* fetchWithTimeout is called.
CallFetch(timeout, retries, retryDelay) ==
  /\ fetch.pc \in {"idle", "returned", "rejected"}
  /\ fetch' = StartedFetch(timeout, retries, retryDelay)
  /\ UNCHANGED <<now, dirs, meta, tiles, run, infoEver, ops, pin, pout, response, wayback>>

\* One turn of the loop up to its return, its throw or its backoff wait
\* (lines 27-84): the fetch ends as outcome tells.
Attempt(outcome) ==
  /\ fetch.pc = "fetching"
  /\ LET responded == outcome.error = NoError
         ok == outcome.status >= 200 /\ outcome.status < 300
         retryStatus == responded /\ ~ok /\ outcome.status >= 500
                          /\ fetch.attempt < fetch.retries
         lastError == IF responded THEN ServerError(outcome.status)
                      ELSE InnerCatch(outcome.error)
         seen == [fetch EXCEPT !.outcomes = Append(@, outcome.label),
                               !.elapsed = IF outcome.label = "timeout"
                                           THEN @ + fetch.timeout ELSE @]
     IN IF responded /\ ~retryStatus
        THEN fetch' = [seen EXCEPT !.pc = "returned", !.status = outcome.status]
        ELSE IF NoRetryFor(lastError) \/ fetch.attempt = fetch.retries
        THEN fetch' = [seen EXCEPT !.pc = "rejected", !.error = lastError]
        ELSE fetch' = [seen EXCEPT !.pc = "waiting", !.error = lastError]
  /\ UNCHANGED <<now, dirs, meta, tiles, run, infoEver, ops, pin, pout, response, wayback>>

\* The backoff wait of lines 86-87 is over: the next turn starts its fetch.
Backoff ==
  /\ fetch.pc = "waiting"
  /\ LET delay == fetch.retryDelay * Pow2(fetch.attempt)
     IN fetch' = [fetch EXCEPT !.pc = "fetching",
                               !.attempt = @ + 1,
                               !.attempts = @ + 1,
                               !.waits = Append(@, delay),
                               !.elapsed = @ + delay]
  /\ UNCHANGED <<now, dirs, meta, tiles, run, infoEver, ops, pin, pout, response, wayback>>

\* The calls made: the defaults, fewer retries, another delay.
NextFetch ==
  \/ \E retries \in 0..DefaultRetries, retryDelay \in {DefaultRetryDelay, 2 * DefaultRetryDelay} :
        CallFetch(DefaultTimeout, retries, retryDelay)
  \/ \E outcome \in FetchOutcomes : Attempt(outcome)
  \/ Backoff

SpecFetch == Init /\ [][NextFetch]_vars

(***************************************************************************)
(* The wayback routes: GET /api/wayback/{year} and                         *)
(* GET /api/wayback/bybbox?year=..&bbox=..                                 *)
(* The release config is a sequence of items in key order; an item is its  *)
(* key and the date of its title ([year, day], day counted from January 1) *)
(* or no date when the title does not match /Wayback (\d{4}-\d{2}-\d{2})/. *)
(***************************************************************************)

Abs(n) == IF n < 0 THEN 0 - n ELSE n

\* Number(str) of a string of an integer: 0 for the empty string, NaN (<<>>)
\* when anything but an optional sign and digits is in it.
ToNumber(str) ==
  LET signed == str # <<>> /\ str[1] \in {43, 45}
      digits == IF signed THEN Tail(str) ELSE str
      value == ParseDigits(digits, 1, 0)
  IN IF str = <<>> THEN <<0>>
     ELSE IF digits = <<>> \/ \E j \in 1..Len(digits) : ~IsDigit(digits[j]) THEN <<>>
     ELSE IF signed /\ str[1] = 45 THEN <<0 - value>> ELSE <<value>>

\* str.split(',')
RECURSIVE SplitComma(_, _)
SplitComma(str, part) ==
  IF str = <<>> THEN <<part>>
  ELSE IF str[1] = 44 THEN <<part>> \o SplitComma(Tail(str), <<>>)
  ELSE SplitComma(Tail(str), Append(part, str[1]))

\* parseBbox: null for no parameter, for other than four parts, for a part
\* that is no number.  param is <<>> (null) or <<str>>.
parseBbox(param) ==
  IF param = <<>> THEN <<>>
  ELSE IF param[1] = <<>> THEN <<>>
  ELSE LET parts == SplitComma(param[1], <<>>)
       IN IF Len(parts) # 4 \/ \E j \in 1..Len(parts) : ToNumber(parts[j]) = <<>> THEN <<>>
          ELSE <<[j \in 1..4 |-> ToNumber(parts[j])[1]]>>

\* PREFERRED_RELEASES[year]
PreferredRelease(year) ==
  IF year = 2017 THEN <<4073>>
  ELSE IF year = 2021 THEN <<13534>>
  ELSE IF year = 2024 THEN <<16453>>
  ELSE <<>>

\* data[key]
RECURSIVE FindItem(_, _)
FindItem(data, key) ==
  IF data = <<>> THEN <<>>
  ELSE IF Head(data).key = key THEN <<Head(data)>>
  ELSE FindItem(Tail(data), key)

\* The items whose title holds a date of the year.
Candidates(data, year) ==
  SelectSeq(data, LAMBDA item : item.title # <<>> /\ item.title[1].year = year)

\* |ts - target| in half days: target is July 1, 12:00 of the year.
Closeness(item, year) ==
  Abs(2 * item.title[1].day - (IF year % 4 = 0 THEN 365 ELSE 363))

\* sorted[0] || null of the stable sort by closeness: the first of the closest.
RECURSIVE Closest(_, _, _)
Closest(candidates, year, chosen) ==
  IF candidates = <<>> THEN chosen
  ELSE IF chosen = <<>> \/ Closeness(Head(candidates), year) < Closeness(chosen[1], year)
       THEN Closest(Tail(candidates), year, <<Head(candidates)>>)
       ELSE Closest(Tail(candidates), year, chosen)

\* itemURL with {level}, {row}, {col} replaced, or the URL built from a
\* release id: a Wayback tile URL of that release.
WaybackUrl(releaseId) == [service |-> "Wayback", releaseId |-> releaseId]

\* baseFallback
FallbackUrl == [service |-> "World_Imagery", releaseId |-> 0]

PlainAnswer(status, body) ==
  [status |-> status, body |-> body, url |-> NoUrl, attribution |-> "",
   releaseId |-> <<>>, releaseDate |-> <<>>]

\* NextResponse.json({ url, attribution, releaseId, releaseDate }): status 200.
JsonAnswer(url, attribution, releaseId, releaseDate) ==
  [status |-> 200, body |-> "json", url |-> url, attribution |-> attribution,
   releaseId |-> releaseId, releaseDate |-> releaseDate]

\* What the fetch of the config came to: it rejected, or it answered with a
\* status and a body that parses as JSON to data, or does not parse.
Fetched(rejected, status, parses, data) ==
  [rejected |-> rejected, status |-> status, parses |-> parses, data |-> data]

\* The fetch, the test of resp.ok or resp.json() threw.
UpstreamFailed(fetched) ==
  fetched.rejected \/ ~(fetched.status >= 200 /\ fetched.status < 300) \/ ~fetched.parses

\* GET /api/wayback/{year} from the answer of fetchWithTimeout on.
WaybackYearAnswer(year, fetched) ==
  IF UpstreamFailed(fetched)
  THEN JsonAnswer(FallbackUrl, "Esri World Imagery (Fallback)", <<>>, <<>>)
  ELSE
    LET rid == PreferredRelease(year)
        item == IF rid = <<>> THEN <<>> ELSE FindItem(fetched.data, rid[1])
        chosen == Closest(Candidates(fetched.data, year), year, <<>>)
    IN IF item # <<>>
       THEN JsonAnswer(WaybackUrl(item[1].key), "Esri Wayback Imagery", rid, item[1].title)
       ELSE IF chosen = <<>>
       THEN JsonAnswer(FallbackUrl, "Esri World Imagery", <<>>, <<>>)
       ELSE JsonAnswer(WaybackUrl(chosen[1].key), "Esri Wayback Imagery",
                       <<chosen[1].key>>, chosen[1].title)

\* GET /api/wayback/bybbox: yearParam and bboxParam are <<>> (absent) or
\* <<str>>; pinned is the release WAYBACK_PINNED gives the year, or <<>>.
\* The config is fetched only when no release is pinned.
WaybackByBboxRoute(yearParam, bboxParam, pinned, fetched) ==
  LET number == IF yearParam = <<>> THEN <<0>> ELSE ToNumber(yearParam[1])
      year == IF number = <<>> THEN 0 ELSE number[1]
      bbox == parseBbox(bboxParam)
      rid == PreferredRelease(year)
      item == IF rid = <<>> THEN <<>> ELSE FindItem(fetched.data, rid[1])
      chosen == Closest(Candidates(fetched.data, year), year, <<>>)
  IN IF year = 0 \/ bbox = <<>> THEN PlainAnswer(400, "Missing year/bbox")
     ELSE IF pinned # <<>>
     THEN JsonAnswer(WaybackUrl(pinned[1]), "Esri Wayback Imagery", pinned, <<[year |-> year, day |-> 0]>>)
     ELSE IF UpstreamFailed(fetched) THEN PlainAnswer(502, "Wayback lookup failed")
     ELSE IF item # <<>>
     THEN JsonAnswer(WaybackUrl(item[1].key), "Esri Wayback Imagery", rid,
                     IF item[1].title # <<>> THEN item[1].title
                     ELSE <<[year |-> year, day |-> 180]>>)
     ELSE IF chosen = <<>>
     THEN JsonAnswer(FallbackUrl, "Esri World Imagery", <<>>, <<>>)
     ELSE JsonAnswer(WaybackUrl(chosen[1].key), "Esri Wayback Imagery",
                     <<chosen[1].key>>, chosen[1].title)

\* The answer of a route to a request, with what the request was.
Answered(route, year, upstream, pinned, answer) ==
  [pc |-> "answered", route |-> route, year |-> year, upstream |-> upstream, pinned |-> pinned,
   status |-> answer.status, body |-> answer.body, url |-> answer.url,
   attribution |-> answer.attribution, releaseId |-> answer.releaseId,
   releaseDate |-> answer.releaseDate]

\* The release configs the upstream may serve: none, the preferred release of
\* 2021, releases of 2020 of which one has a title without a date.
Release(key, title) == [key |-> key, title |-> title]

Configs ==
  { <<>>,
    <<Release(13534, <<[year |-> 2021, day |-> 180]>>)>>,
    <<Release(100, <<[year |-> 2020, day |-> 50]>>),
      Release(101, <<[year |-> 2020, day |-> 200]>>),
      Release(102, <<>>)>> }

\* The year segments and parameters: '2019', '2020', '2021', '2021x', 'abc'.
YearStrings ==
  { <<50, 48, 49, 57>>, <<50, 48, 50, 48>>, <<50, 48, 50, 49>>,
    <<50, 48, 50, 49, 120>>, <<97, 98, 99>> }

\* The bbox parameters: '1,2,3,4', '1,2,3', '1,2,x,4', none.
BboxParams ==
  { <<<<49, 44, 50, 44, 51, 44, 52>>>>, <<<<49, 44, 50, 44, 51>>>>,
    <<<<49, 44, 50, 44, 120, 44, 52>>>>, <<>> }

\* GET /api/wayback/{year}, lines 21-42: the year is parsed and the config is
\* asked for with fetchWithTimeout (timeout 5000, retries 2).
WaybackYearStart(yearStr) ==
  /\ wayback.pc \in {"idle", "answered"}
  /\ fetch.pc \in {"idle", "returned", "rejected"}
  /\ LET year == ParseInt(yearStr)
     IN IF year = <<>>
        THEN /\ wayback' = Answered("year", 0, "", FALSE, PlainAnswer(400, "Invalid year"))
             /\ UNCHANGED fetch
        ELSE /\ wayback' = [NoWayback EXCEPT !.pc = "fetching", !.route = "year", !.year = year[1]]
             /\ fetch' = StartedFetch(5000, 2, DefaultRetryDelay)
  /\ UNCHANGED <<now, dirs, meta, tiles, run, infoEver, ops, pin, pout, response>>

\* GET /api/wayback/{year}, lines 43-147: fetchWithTimeout has returned an
\* answer or thrown.
WaybackYearFinish(parses, data) ==
  /\ wayback.pc = "fetching"
  /\ fetch.pc \in {"returned", "rejected"}
  /\ LET fetched == Fetched(fetch.pc = "rejected", fetch.status, parses, data)
     IN wayback' = Answered("year", wayback.year, fetch.outcomes[Len(fetch.outcomes)], FALSE,
                            WaybackYearAnswer(wayback.year, fetched))
  /\ UNCHANGED <<now, dirs, meta, tiles, run, infoEver, ops, pin, pout, response, fetch>>

\* GET /api/wayback/bybbox, the whole handler; outcome is what its fetch of
\* the config does.
WaybackByBbox(yearParam, bboxParam, pinned, outcome, parses, data) ==
  /\ wayback.pc \in {"idle", "answered"}
  /\ LET fetched == Fetched(outcome.error # NoError, outcome.status, parses, data)
         number == IF yearParam = <<>> THEN <<0>> ELSE ToNumber(yearParam[1])
         answer == WaybackByBboxRoute(yearParam, bboxParam, pinned, fetched)
         asked == answer.status # 400 /\ pinned = <<>>
     IN wayback' = Answered("bybbox", IF number = <<>> THEN 0 ELSE number[1],
                            IF asked THEN outcome.label ELSE "", pinned # <<>>, answer)
  /\ UNCHANGED <<now, dirs, meta, tiles, run, infoEver, ops, pin, pout, response, fetch>>

\* Requests to both routes while the upstream answers, fails or hangs.
NextWayback ==
  \/ \E yearStr \in YearStrings : WaybackYearStart(yearStr)
  \/ \E outcome \in FetchOutcomes : Attempt(outcome)
  \/ Backoff
  \/ \E parses \in BOOLEAN, data \in Configs : WaybackYearFinish(parses, data)
  \/ \E yearStr \in YearStrings, bboxParam \in BboxParams, pinned \in {<<>>, <<4073>>},
        outcome \in {o \in FetchOutcomes : o.label # "timeout"},
        parses \in BOOLEAN, data \in Configs :
        WaybackByBbox(<<yearStr>>, bboxParam, pinned, outcome, parses, data)

SpecWayback == Init /\ [][NextWayback]_vars

(***************************************************************************)
(* The scene selection on its own: a catalog answer is drawn, selected     *)
(* from with several limits, and handed to the search of a download.       *)
(***************************************************************************)

\* Bounds of the selection inputs: the length of a drawn answer.
MaxItems == 3

SceneIds == <<"s1", "s2", "s3", "s4", "s5", "s6", "s7", "s8">>

\* The scenes of a list of <<cloud cover, sun elevation>> pairs, named by position.
ScenesOf(pairs) ==
  [j \in 1..Len(pairs) |->
     [id |-> SceneIds[j], cloud |-> pairs[j][1], sun |-> pairs[j][2], visual |-> TRUE]]

\* Eight scenes with cloud covers 5, 12, 30, 8, 3, 19, 25, 11.
EightScenes ==
  ScenesOf(<< <<5, 30>>, <<12, 30>>, <<30, 30>>, <<8, 30>>, <<3, 30>>, <<19, 30>>,
              <<25, 30>>, <<11, 30>> >>)

\* Six scenes of one cloud cover in ascending sun elevation.
SixTied ==
  ScenesOf(<< <<7, 10>>, <<7, 20>>, <<7, 30>>, <<7, 40>>, <<7, 50>>, <<7, 60>> >>)

ScenePairs == {<<3, 30>>, <<3, 40>>, <<5, 30>>, <<5, 40>>}

RECURSIVE PairLists(_)
PairLists(n) ==
  IF n = 0 THEN {<<>>}
  ELSE PairLists(n - 1) \cup {Append(l, p) : l \in {m \in PairLists(n - 1) : Len(m) = n - 1}, p \in ScenePairs}

SelectInputs == {ScenesOf(l) : l \in PairLists(MaxItems)} \cup {EightScenes, SixTied}

InitSelect ==
  /\ now = 0
  /\ dirs = {}
  /\ meta = [h \in {} |-> TornText]
  /\ tiles = [p \in {} |-> ""]
  /\ run = [r \in Runs |-> IdleRun]
  /\ infoEver = {}
  /\ ops = NoCall
  /\ pin \in SelectInputs
  /\ pout = <<>>
  /\ response = NoResponse
  /\ fetch = IdleFetch
  /\ wayback = NoWayback

\* selectBestScenes(items, maxScenes) is called on the drawn answer.
Select(maxScenes) ==
  /\ pout = <<>>
  /\ pout' = <<[maxScenes |-> maxScenes, best |-> selectBestScenes(pin, maxScenes)]>>
  /\ UNCHANGED <<now, dirs, meta, tiles, run, infoEver, ops, pin, response, fetch, wayback>>

\* The limits asked for: 1, 2, the 5 of downloadMosaic, the default 10.
NextSelect ==
  \/ \E maxScenes \in {1, 2, 5, 10} : Select(maxScenes)
  \/ \E k \in OneKey : StartDownload(1, k.year, k.bbox, 0)
  \/ Search(1, FALSE, pin)

SpecSelect == InitSelect /\ [][NextSelect]_vars

(***************************************************************************)
(* Properties of the storage and of the download                           *)
(***************************************************************************)

StorageAfter == [dirs |-> dirs', meta |-> meta', tiles |-> tiles']

KeyHash(k) == generateMosaicHash(k.year, k.bbox)

\* No record listMosaics returns has this hash.
NotListed(fs, hash) ==
  LET listed == listMosaics(fs).mosaics
  IN \A j \in 1..Len(listed) : ~SameHash(listed[j].hash, hash)

\* The tiles of a pyramid of MaxZoom levels, in every format.
TileCoords ==
  {c \in [z : 0..MaxZoom, x : 0..(Pow2(MaxZoom) - 1), y : 0..(Pow2(MaxZoom) - 1), format : Formats] :
     c.x < Pow2(c.z) /\ c.y < Pow2(c.z)}

\* C1 as stated: a download of a key for which hasMosaic was true when it
\* started is complete at once: 'searching' then 'complete', the existing
\* record returned, no catalog query, no asset fetch, no tile write.
C1_PresentKeyCompletesAtOnce ==
  \A r \in Runs :
    (run[r].pc # "idle" /\ run[r].hadMosaic) =>
      /\ run[r].pc = "done"
      /\ run[r].events = <<Progress("searching", 0), Progress("complete", 100)>>
      /\ run[r].result # <<>>
      /\ run[r].queries = 0 /\ run[r].fetches = 0 /\ run[r].writes = 0

\* C2 as stated: while a download has not written its last tile, hasMosaic of
\* its key is false and listMosaics has no record of its hash.
C2_HiddenUntilLastTile ==
  \A r \in Runs :
    run[r].pc \in {"search", "process", "tiling"} =>
      /\ ~hasMosaic(Storage, run[r].year, run[r].bbox)
      /\ NotListed(Storage, generateMosaicHash(run[r].year, run[r].bbox))

\* C2 (as amended): a directory that holds no metadata file, with or without
\* tiles, is not a mosaic for hasMosaic and listMosaics; and hasMosaic of a key
\* turns true only in the saveMosaicInfo of a download of that key that has
\* been through all its tiles.
C2_VisibleOnlyBySaveInfoAfterTiles ==
  /\ [](\A k \in Keys :
          KeyHash(k) \notin DOMAIN meta =>
            ~hasMosaic(Storage, k.year, k.bbox) /\ NotListed(Storage, KeyHash(k)))
  /\ [][\A k \in Keys :
          (~hasMosaic(Storage, k.year, k.bbox) /\ hasMosaic(StorageAfter, k.year, k.bbox)) =>
            \E r \in Runs :
               /\ run[r].pc = "saveInfo"
               /\ run'[r].pc # "saveInfo"
               /\ generateMosaicHash(run[r].year, run[r].bbox) = KeyHash(k)
               /\ run[r].z > run[r].maxZoom]_vars

\* C2 witness: a download is between two tiles, its directory holds a tile and
\* no metadata file.
C2_Witness ==
  \E r \in Runs :
    /\ run[r].pc = "tiling"
    /\ run[r].writes > 0
    /\ generateMosaicHash(run[r].year, run[r].bbox) \in dirs
    /\ generateMosaicHash(run[r].year, run[r].bbox) \notin DOMAIN meta
    /\ ~hasMosaic(Storage, run[r].year, run[r].bbox)

\* C3: hasMosaic of a key is false as long as saveMosaicInfo was never called
\* with its hash, tiles or not, and true right after saveMosaicInfo returned.
C3_PresentFromSaveInfo ==
  \A k \in Keys :
    /\ KeyHash(k) \notin infoEver => ~hasMosaic(Storage, k.year, k.bbox)
    /\ (ops.op = "saveMosaicInfo" /\ ops.hash = KeyHash(k)) => hasMosaic(Storage, k.year, k.bbox)

\* C3 witness: saveMosaicInfo has just returned for one key, and another key
\* has a tile and was never given to saveMosaicInfo.
C3_Witness ==
  \E k \in Keys, other \in Keys :
    /\ ops.op = "saveMosaicInfo" /\ ops.hash = KeyHash(k)
    /\ hasMosaic(Storage, k.year, k.bbox)
    /\ KeyHash(other) \notin infoEver
    /\ getTile(Storage, other.year, other.bbox, 0, 0, 0, "png") # <<>>
    /\ ~hasMosaic(Storage, other.year, other.bbox)

\* C4 as stated: hasMosaic is true exactly when getMosaicInfo returns a record.
C4_PresentIffReadable ==
  \A k \in Keys :
    hasMosaic(Storage, k.year, k.bbox) <=> (getMosaicInfo(Storage, k.year, k.bbox) # <<>>)

\* The downloads that hand tile c of hash to saveTile in this step.
Writers(hash, c) ==
  {r \in Runs :
     /\ run[r].pc = "tiling"
     /\ run'[r].writes = run[r].writes + 1
     /\ run[r].z = c.z /\ run[r].x = c.x /\ run[r].y = c.y /\ c.format = "png"
     /\ generateMosaicHash(run[r].year, run[r].bbox) = hash}

\* C5: getTile returns the bytes of the last saveTile of that hash, coordinate
\* and format, and null for a tile never written or deleted since: no tile
\* at first, and in every step a tile handed to saveTile reads back as the
\* bytes handed over, a tile of a deleted directory reads as null, and every
\* other tile reads as before.
C5_GetTileReturnsLastSaved ==
  /\ \A k \in Keys, c \in TileCoords :
       getTile(Storage, k.year, k.bbox, c.z, c.x, c.y, c.format) = <<>>
  /\ [][\A k \in Keys :
          LET hash == KeyHash(k)
          IN \A c \in TileCoords :
               LET path == TilePath(hash, c.z, c.x, c.y, c.format)
                   writers == Writers(hash, c)
               IN ReadTile(StorageAfter, path) =
                    IF writers # {}
                    THEN <<run[CHOOSE r \in writers : TRUE].processed[1]>>
                    ELSE IF hash \in dirs /\ hash \notin dirs' THEN <<>>
                    ELSE ReadTile(Storage, path)]_vars

\* C5 witness: a tile was saved twice in a row with different bytes and reads
\* as the second.
C5_Witness ==
  /\ ops.op = "saveTile"
  /\ ops.again
  /\ ops.beforeData # ops.data
  /\ \E k \in Keys :
       /\ KeyHash(k) = ops.hash
       /\ getTile(Storage, k.year, k.bbox, ops.arg[1], ops.arg[2], ops.arg[3], "png") = <<ops.data>>

\* The directories whose record is older than daysOld days.
OldMosaics(daysOld) ==
  {h \in DOMAIN meta : meta[h].complete /\ meta[h].info[1].downloadDate < now - daysOld}

\* C8: cleanupOldMosaics(days) removes the directories whose record has a
\* downloadDate before now - days, metadata and tiles, leaves every other file
\* as it was, and returns how many it removed.
C8_CleanupRemovesExactlyTheOld ==
  [][\A d \in 0..MaxDays :
       Cleanup(d) =>
         /\ dirs' = dirs \ OldMosaics(d)
         /\ meta' = [h \in DOMAIN meta \ OldMosaics(d) |-> meta[h]]
         /\ tiles' = [p \in {q \in DOMAIN tiles : q.hash \notin OldMosaics(d)} |-> tiles[p]]
         /\ ops'.ret = Cardinality(OldMosaics(d))]_vars

\* C8 witness: a cleanup removed one mosaic and left another with its record
\* and its tile.
C8_Witness ==
  /\ ops.op = "cleanup"
  /\ ops.ret = 1
  /\ \E h \in DOMAIN meta : meta[h].complete /\ \E p \in DOMAIN tiles : p.hash = h

\* C9: a second cleanupOldMosaics(days) right after the first, at the same
\* time and with no write in between, returns 0 and changes no file.
C9_CleanupTwiceRemovesNothing ==
  [][\A d \in 0..MaxDays :
       (ops.op = "cleanup" /\ ops.arg = <<d>> /\ Cleanup(d)) =>
         /\ ops'.ret = 0
         /\ StorageAfter = Storage]_vars

\* C9 witness: a cleanup that removed a mosaic was followed by the same
\* cleanup, which returned 0.
C9_Witness ==
  /\ ops.op = "cleanup"
  /\ ops.again
  /\ ops.before > 0
  /\ ops.ret = 0

\* C10: listMosaics does not throw and returns the records of exactly the
\* metadata files that parse, one each, whatever else is stored; so does
\* getStorageStats.
C10_ListSkipsUnreadable ==
  LET listed == listMosaics(Storage)
      readable == {h \in DOMAIN meta : meta[h].complete}
  IN /\ ~listed.threw
     /\ Len(listed.mosaics) = Cardinality(readable)
     /\ {listed.mosaics[j] : j \in 1..Len(listed.mosaics)} = {meta[h].info[1] : h \in readable}
     /\ ~getStorageStats(Storage).threw
     /\ getStorageStats(Storage).totalMosaics = Cardinality(readable)

\* C10 witness: one metadata file is cut short, another parses and is listed.
C10_Witness ==
  /\ \E h \in DOMAIN meta : ~meta[h].complete
  /\ \E h \in DOMAIN meta : meta[h].complete
  /\ Len(listMosaics(Storage).mosaics) = 1

\* C11: after deleteMosaic(key) returned, hasMosaic(key) is false,
\* getMosaicInfo(key) is null, getTile is null for every tile of the key and
\* listMosaics has no record of its hash; deleteMosaic of a key with no
\* directory changes no file.
C11_DeleteRemovesTheWholeMosaic ==
  /\ [](\A k \in Keys :
          (ops.op = "deleteMosaic" /\ ops.hash = KeyHash(k)) =>
             /\ ~hasMosaic(Storage, k.year, k.bbox)
             /\ getMosaicInfo(Storage, k.year, k.bbox) = <<>>
             /\ \A c \in TileCoords :
                  getTile(Storage, k.year, k.bbox, c.z, c.x, c.y, c.format) = <<>>
             /\ NotListed(Storage, KeyHash(k)))
  /\ [][\A k \in Keys :
          (Delete(k.year, k.bbox) /\ KeyHash(k) \notin dirs) => StorageAfter = Storage]_vars

\* C11 witness: deleteMosaic has just removed a mosaic that had its record
\* and a tile, and the other mosaic is still stored.
C11_Witness ==
  /\ ops.op = "deleteMosaic"
  /\ ops.ret = 1
  /\ ops.hash \in infoEver
  /\ ops.hash \notin dirs
  /\ \E h \in DOMAIN meta : meta[h].complete /\ \E p \in DOMAIN tiles : p.hash = h

\* The events of a run hold no 'complete'.
NeverComplete(r) ==
  \A j \in 1..Len(run[r].events) : run[r].events[j].stage # "complete"

\* C12: a catalog answer of zero scenes on a cache miss fails the download
\* with the no-data error and changes no file; the failed download has no
\* 'complete' event, no result, no tile write, and hasMosaic of its key is
\* still false if it was false when the download started; the failure is
\* final: the run changes again only when downloadMosaic is called anew.
C12_NoDataFailsWithoutWrites ==
  /\ [][\A r \in Runs :
          Search(r, FALSE, <<>>) =>
            /\ run'[r].pc = "failed"
            /\ run'[r].error = "No Sentinel-2 data found"
            /\ StorageAfter = Storage]_vars
  /\ [](\A r \in Runs :
          (run[r].pc = "failed" /\ run[r].error = "No Sentinel-2 data found") =>
            /\ NeverComplete(r)
            /\ run[r].result = <<>>
            /\ run[r].writes = 0
            /\ (~run[r].hadMosaic => ~hasMosaic(Storage, run[r].year, run[r].bbox)))
  /\ [][\A r \in Runs :
          (run[r].pc = "failed" /\ run[r].error = "No Sentinel-2 data found"
             /\ run'[r] # run[r]) =>
            /\ run'[r].queries = 0
            /\ run'[r].events[1] = Progress("searching", 0)]_vars

\* C12 witness: a download has failed with the no-data error, its key has no
\* directory, and it had asked the catalog once.
C12_Witness ==
  \E r \in Runs :
    /\ run[r].pc = "failed"
    /\ run[r].error = "No Sentinel-2 data found"
    /\ run[r].queries = 1
    /\ ~run[r].hadMosaic
    /\ ~hasMosaic(Storage, run[r].year, run[r].bbox)

\* The ids of the selected scenes, in selection order.
BestIds(r) == [j \in 1..Len(run[r].best) |-> run[r].best[j].id]

\* The ids in seq that are not in the sequence left.
Without(seq, left) ==
  SelectSeq(seq, LAMBDA id : \A j \in 1..Len(left) : left[j] # id)

\* C13: a scene whose fetch or normalization fails is dropped and nothing
\* else: the turn of the loop goes on to the next scene (or to tiling after
\* the last), every selected scene is attempted, and the scenes handed to
\* tiling are the selected ones without the dropped ones, in selection order.
C13_FailedSceneIsDroppedAlone ==
  /\ [][\A r \in Runs, fetched \in BOOLEAN :
          ProcessScene(r, fetched) =>
            /\ run'[r].pc = IF run[r].i = Len(run[r].best) THEN "tiling" ELSE "process"
            /\ run'[r].i = run[r].i + 1
            /\ run'[r].processed =
                 IF fetched THEN Append(run[r].processed, run[r].best[run[r].i].id)
                 ELSE run[r].processed]_vars
  /\ [](\A r \in Runs :
          run[r].pc \in {"tiling", "measure", "saveInfo"} =>
            /\ run[r].fetches = Len(run[r].best)
            /\ Len(run[r].processed) + Len(run[r].dropped) = Len(run[r].best)
            /\ run[r].processed = Without(BestIds(r), run[r].dropped))

\* C13 witness: the first selected scene failed, the second was processed and
\* the run is tiling.
C13_Witness ==
  \E r \in Runs :
    /\ run[r].pc = "tiling"
    /\ Len(run[r].best) = 2
    /\ run[r].dropped = <<run[r].best[1].id>>
    /\ run[r].processed = <<run[r].best[2].id>>

\* Every selected scene of the run failed: processScenes returned no scene.
AllScenesFailed(r) ==
  /\ run[r].best # <<>>
  /\ run[r].i > Len(run[r].best)
  /\ run[r].processed = <<>>

\* C14: a download all of whose selected scenes failed does not fail: every
\* turn of the tiling loop writes nothing and goes on, whatever the write
\* would have done, the run has written no tile and counts none, and its
\* saveMosaicInfo stores a record with tileCount = 0 and ends it 'complete'.
C14_NoSceneGivesEmptyMosaic ==
  /\ [](\A r \in Runs :
          AllScenesFailed(r) =>
            /\ run[r].pc \in {"tiling", "measure", "saveInfo", "done"}
            /\ run[r].writes = 0
            /\ run[r].tileCount = 0)
  /\ [][\A r \in Runs :
          (AllScenesFailed(r) /\ run[r].pc = "tiling" /\ run'[r] # run[r] /\ run'[r] # IdleRun) =>
            /\ run'[r].pc \in {"tiling", "measure"}
            /\ StorageAfter = Storage]_vars
  /\ [][\A r \in Runs :
          (AllScenesFailed(r) /\ SaveInfo(r)) =>
            LET hash == generateMosaicHash(run[r].year, run[r].bbox)
            IN /\ run'[r].pc = "done"
               /\ run'[r].events[Len(run'[r].events)] = Progress("complete", 100)
               /\ run'[r].result # <<>>
               /\ run'[r].result[1].tileCount = 0
               /\ getMosaicInfo(StorageAfter, run[r].year, run[r].bbox) = run'[r].result]_vars

\* C14 witness: a download whose two scenes failed is complete, its record of
\* no tile is stored and its directory holds no tile.
C14_Witness ==
  \E r \in Runs :
    /\ AllScenesFailed(r)
    /\ run[r].pc = "done"
    /\ Len(run[r].dropped) = 2
    /\ run[r].result # <<>>
    /\ run[r].result[1].tileCount = 0
    /\ getMosaicInfo(Storage, run[r].year, run[r].bbox) = run[r].result
    /\ \A p \in DOMAIN tiles : p.hash # run[r].result[1].hash

\* C15 as stated: once the search has returned a scene, no error of a scene
\* or of a tile fails the download.
C15_SceneFoundNeverFails ==
  \A r \in Runs : run[r].best # <<>> => run[r].pc # "failed"

\* The tiles of the levels below z: 1 + 4 + ... + 4^(z-1).
RECURSIVE LevelsBelow(_)
LevelsBelow(z) == IF z = 0 THEN 0 ELSE 4 * LevelsBelow(z - 1) + 1

\* The tiles that come before (z, x, y) in the order of the three loops.
TilesBefore(z, x, y) == LevelsBelow(z) + x * Pow2(z) + y

\* The run has the png tile of every coordinate up to its maxZoom in its directory.
WholePyramidStored(r) ==
  LET hash == generateMosaicHash(run[r].year, run[r].bbox)
  IN \A z \in 0..run[r].maxZoom :
       \A x \in 0..(Pow2(z) - 1), y \in 0..(Pow2(z) - 1) :
          TilePath(hash, z, x, y, "png") \in DOMAIN tiles

IsDecimal(str) == str # <<>> /\ \A j \in 1..Len(str) : IsDigit(str[j])

\* The y and the extension of a request of four segments.
ReqY(req) == SplitDot(req.segs[3], <<>>)[1]
ReqExt(req) ==
  LET parts == SplitDot(req.segs[3], <<>>) IN IF Len(parts) >= 2 THEN parts[2] ELSE <<>>

\* zoom, x and y are numbers in range: digits only, x and y below 2^zoom.
GoodCoordinates(req) ==
  /\ IsDecimal(req.segs[1]) /\ IsDecimal(req.segs[2]) /\ IsDecimal(ReqY(req))
  /\ ParseDigits(req.segs[2], 1, 0) < Pow2(ParseDigits(req.segs[1], 1, 0))
  /\ ParseDigits(ReqY(req), 1, 0) < Pow2(ParseDigits(req.segs[1], 1, 0))

\* C17 as stated: a request whose zoom, x or y is not a number in range is
\* answered 400 without a lookup of the mosaic or of the tile.
C17_BadCoordinatesAnswered400 ==
  (response.req # <<>> /\ Len(response.req[1].segs) = 3
     /\ ~GoodCoordinates(response.req[1])) =>
    /\ response.status = 400
    /\ response.lookups = 0
    /\ response.reads = 0

\* C18: in every state of the storage, no request has been answered 500 and a
\* request with numbers in range and an extension is answered 400
\* 'Unsupported format' when the extension is not png, jpg or webp, whatever
\* the hash; else 404 'Mosaic not found' when no listed record has the hash;
\* else 404 when the tile file does not exist; and never 500.
C18_MissIs404 ==
  /\ response.status # 500
  /\ \A req \in Requests :
       (Len(req.segs) = 3 /\ GoodCoordinates(req) /\ ReqExt(req) # <<>>) =>
         LET answer == TileRoute(Storage, req)
             format == FormatOf(ReqExt(req))
             known == ~NotListed(Storage, req.hash)
             zoom == ParseDigits(req.segs[1], 1, 0)
             tileX == ParseDigits(req.segs[2], 1, 0)
             tileY == ParseDigits(ReqY(req), 1, 0)
         IN /\ answer.status # 500
            /\ format = <<>> =>
                 answer.status = 400 /\ answer.body = "Unsupported format"
            /\ (format # <<>> /\ ~known) =>
                 answer.status = 404 /\ answer.body = "Mosaic not found"
            /\ (format # <<>> /\ known
                  /\ TilePath(req.hash, zoom, tileX, tileY, format[1]) \notin DOMAIN tiles) =>
                 answer.status = 404

\* C18 witness: the mosaic is listed, its png tile is stored, and the request
\* for the jpg tile of the same coordinate was answered 404 'Tile not found'.
C18_Witness ==
  /\ response.status = 404
  /\ response.body = "Tile not found"
  /\ ~NotListed(Storage, response.req[1].hash)
  /\ ReqExt(response.req[1]) = JpgExt
  /\ TilePath(response.req[1].hash, 0, 0, 0, "png") \in DOMAIN tiles
  /\ TilePath(response.req[1].hash, 0, 0, 0, "jpg") \notin DOMAIN tiles

\* C19 as stated: an attempt that timed out is the last one: the call is
\* rejected with the timeout error, no wait and no attempt follows, and a timer
\* ran for one timeout period only since that attempt started.
C19_NoRetryAfterTimeout ==
  \A j \in 1..Len(fetch.outcomes) :
    fetch.outcomes[j] = "timeout" =>
      /\ j = Len(fetch.outcomes)
      /\ fetch.pc = "rejected"
      /\ fetch.error.message = RequestTimeoutMessage
      /\ fetch.attempts = j

\* C20 as stated: the call makes at most retries + 1 attempts; an attempt is
\* followed by another only if it ended in a network error or a 5xx answer;
\* the wait before retry number j is retryDelay * 2^(j-1).
C20_RetriesOnlyNetworkAndServerErrors ==
  /\ fetch.attempts <= fetch.retries + 1
  /\ \A j \in 1..Len(fetch.waits) : fetch.waits[j] = fetch.retryDelay * Pow2(j - 1)
  /\ \A j \in 1..Len(fetch.outcomes) :
       (j < Len(fetch.outcomes) \/ fetch.pc = "waiting") =>
          fetch.outcomes[j] \in {"network", "server"}

\* The labels of a config fetch that failed or was answered not OK.
UpstreamFailures == {"client", "server", "network", "timeout"}

\* C21 as stated: a wayback request whose config fetch failed or was answered
\* not OK is answered 200 with the Esri World Imagery fallback URL, never 500
\* or 502, on both routes.
C21_UpstreamFailureAnswered200 ==
  (wayback.pc = "answered" /\ wayback.upstream \in UpstreamFailures) =>
    /\ wayback.status = 200
    /\ wayback.url = FallbackUrl
    /\ wayback.status \notin {500, 502}

\* Scene a ranks strictly better than scene b: less cloud, or the same cloud
\* and a higher sun.
RanksBetter(a, b) == a.cloud < b.cloud \/ (a.cloud = b.cloud /\ a.sun > b.sun)

\* best is what the claim says of a selection of n scenes from items.
IsBestSelection(best, items, n) ==
  /\ Len(best) = (IF n < Len(items) THEN n ELSE Len(items))
  /\ \A j \in 1..Len(best) : \E i \in 1..Len(items) : items[i] = best[j]
  /\ \A j \in 1..Len(best), k \in 1..Len(best) : j # k => best[j].id # best[k].id
  /\ \A j \in 1..(Len(best) - 1) : ~RanksBetter(best[j + 1], best[j])
  /\ \A i \in 1..Len(items) :
       (\A j \in 1..Len(best) : best[j].id # items[i].id) =>
          \A j \in 1..Len(best) : ~RanksBetter(items[i], best[j])

\* C22: selectBestScenes(items, N) returns min(N, |items|) of the items, in
\* order of ascending cloud cover and, at equal cloud cover, descending sun
\* elevation, and none of the items left out ranks strictly better than one
\* returned; the search of downloadMosaic selects with N = 5, so that from
\* cloud covers 5, 12, 30, 8, 3, 19, 25, 11 it keeps 3, 5, 8, 11, 12.
C22_SelectsTheBestInOrder ==
  /\ pout # <<>> => IsBestSelection(pout[1].best, pin, pout[1].maxScenes)
  /\ run[1].pc = "process" =>
       /\ IsBestSelection(run[1].best, pin, 5)
       /\ pin = EightScenes =>
            [j \in 1..Len(run[1].best) |-> run[1].best[j].cloud] = <<3, 5, 8, 11, 12>>

\* C22 witness: the search of a download has selected five of six scenes of
\* equal cloud cover that came in ascending sun elevation: the five highest,
\* highest first.
C22_Witness ==
  /\ pin = SixTied
  /\ run[1].pc = "process"
  /\ [j \in 1..Len(run[1].best) |-> run[1].best[j].sun] = <<60, 50, 40, 30, 20>>

\* C23 as stated: the scenes of the record a download stores at completion
\* are the ids of the scenes it fetched and processed, and hold no scene that
\* was selected and dropped.
C23_RecordListsScenesUsed ==
  \A r \in Runs :
    (run[r].pc = "done" /\ run[r].queries > 0) =>
      /\ run[r].result[1].scenes = run[r].processed
      /\ \A j \in 1..Len(run[r].dropped), i \in 1..Len(run[r].result[1].scenes) :
           run[r].result[1].scenes[i] # run[r].dropped[j]

\* The tile files stored under a hash.
TileFiles(hash) == {p \in DOMAIN tiles : p.hash = hash}

\* C24 as stated: right after a download has stored its record, the record's
\* tileCount is the number of tile files under its hash and its totalSize is
\* the size of those tile files and of nothing else, whatever the directory
\* held when the download started.
C24_RecordDescribesStoredMosaic ==
  \A r \in Runs :
    (run[r].pc = "done" /\ run[r].queries > 0
       /\ ops.op = "saveMosaicInfo" /\ ops.hash = run[r].result[1].hash) =>
      /\ run[r].result[1].tileCount = Cardinality(TileFiles(run[r].result[1].hash))
      /\ run[r].result[1].totalSize =
           [tileFiles |-> Cardinality(TileFiles(run[r].result[1].hash)), metadataFiles |-> 0]

\* The record a download of maxZoom levels that runs alone on an empty
\* directory stores, as far as tileCount, totalSize and scenes go: every tile
\* of the pyramid, their size and nothing else, the scenes selected.
IsLoneRunRecord(info, r) ==
  /\ info.tileCount = LevelsBelow(run[r].maxZoom + 1)
  /\ info.totalSize = [tileFiles |-> LevelsBelow(run[r].maxZoom + 1), metadataFiles |-> 0]
  /\ info.scenes = BestIds(r)

\* C25 as stated: when two downloads of one key that both missed the cache
\* have completed, every tile coordinate holds the bytes one of them wrote and
\* the stored record is one a download running alone could have written.
C25_ConcurrentRunsDoNotCorrupt ==
  (run[1].pc = "done" /\ run[2].pc = "done" /\ run[1].queries > 0 /\ run[2].queries > 0) =>
    LET info == getMosaicInfo(Storage, run[1].year, run[1].bbox)
        hash == generateMosaicHash(run[1].year, run[1].bbox)
    IN /\ WholePyramidStored(1)
       /\ \A p \in TileFiles(hash) :
            tiles[p] \in {run[1].processed[1], run[2].processed[1]}
       /\ info # <<>>
       /\ IsLoneRunRecord(info[1], 1)

\* The files of one hash: its directory, its metadata file, its tiles.
FilesOf(fs, hash) ==
  [dir |-> hash \in fs.dirs,
   meta |-> IF hash \in DOMAIN fs.meta THEN <<fs.meta[hash]>> ELSE <<>>,
   tiles |-> [p \in {q \in DOMAIN fs.tiles : q.hash = hash} |-> fs.tiles[p]]]

\* The hash of the key the download r works on in this step.
StepHash(r) ==
  IF run[r].pc \in {"idle", "done", "failed"}
  THEN generateMosaicHash(run'[r].year, run'[r].bbox)
  ELSE generateMosaicHash(run[r].year, run[r].bbox)

\* C26: a step of a download of one key (its cache check, its saveTile, its
\* saveMosaicInfo) and a deleteMosaic of one key leave the directory, the
\* metadata and every tile of a key with another hash as they were; and a
\* download that ran beside the downloads and deletions of another key ends
\* with what it stores when it runs alone: its record of the whole pyramid
\* and its own bytes in every tile.
C26_OtherKeysUntouched ==
  /\ [][\A k \in YearKeys :
          ( \/ \E r \in Runs : run'[r] # run[r] /\ StepHash(r) # KeyHash(k)
            \/ \E o \in YearKeys : Delete(o.year, o.bbox) /\ KeyHash(o) # KeyHash(k) )
          => FilesOf(StorageAfter, KeyHash(k)) = FilesOf(Storage, KeyHash(k))]_vars
  /\ []((run[2].pc = "done" /\ run[2].queries > 0) =>
          LET info == getMosaicInfo(Storage, run[2].year, run[2].bbox)
          IN /\ info = run[2].result
             /\ IsLoneRunRecord(info[1], 2)
             /\ WholePyramidStored(2)
             /\ \A p \in TileFiles(info[1].hash) : tiles[p] = run[2].processed[1])

\* C26 witness: deleteMosaic has just removed the stored mosaic of the first
\* key while the second key's download, complete, has its record and its tile.
C26_Witness ==
  /\ ops.op = "deleteMosaic"
  /\ ops.ret = 1
  /\ ops.hash \in infoEver
  /\ run[2].pc = "done"
  /\ run[2].queries > 0
  /\ ops.hash # run[2].result[1].hash
  /\ getMosaicInfo(Storage, run[2].year, run[2].bbox) = run[2].result
  /\ TileFiles(run[2].result[1].hash) # {}

\* The place of a reported stage in the pipeline; the stage of the scene
\* processing loop is reported under the name 'downloading'.
StageRank(stage) ==
  CASE stage = "searching" -> 0
    [] stage = "downloading" -> 1
    [] stage = "tiling" -> 2
    [] stage = "complete" -> 3
    [] OTHER -> -1

\* C27 (as amended): the events of a download start with 'searching' at 0,
\* report the stages searching, downloading, tiling, complete in that order
\* without going back ('processing' is never reported), carry a percent within 0..100 that never
\* decreases; 'complete' is reported with 100, only as the last event and only
\* by a download that has succeeded, and every download that has succeeded
\* has reported it.
C27_ProgressInOrder ==
  \A r \in Runs :
    LET ev == run[r].events
    IN /\ \A j \in 1..Len(ev) : StageRank(ev[j].stage) >= 0 /\ ev[j].progress \in 0..100
       /\ \A j \in 1..(Len(ev) - 1) :
            /\ StageRank(ev[j].stage) <= StageRank(ev[j + 1].stage)
            /\ ev[j].progress <= ev[j + 1].progress
       /\ run[r].pc # "idle" => (ev # <<>> /\ ev[1] = [stage |-> "searching", progress |-> 0])
       /\ \A j \in 1..Len(ev) :
            ev[j].stage = "complete" =>
              (j = Len(ev) /\ ev[j].progress = 100 /\ run[r].pc = "done")
       /\ run[r].pc = "done" => (ev # <<>> /\ ev[Len(ev)].stage = "complete")
       /\ run[r].pc = "failed" => NeverComplete(r)

\* C27 as stated: the same with the stages named searching, processing,
\* tiling, complete: every event reports one of these four.
C27_ProgressInStatedStages ==
  /\ C27_ProgressInOrder
  /\ \A r \in Runs : \A j \in 1..Len(run[r].events) :
       run[r].events[j].stage \in {"searching", "processing", "tiling", "complete"}

\* C27 witness: a download that went through the whole pipeline to zoom level
\* 1 is complete; it reported 'downloading' at 20 and 40, 'tiling' at 60 and
\* 78 and 'complete' at 100.
C27_Witness ==
  \E r \in Runs :
    LET ev == run[r].events
    IN /\ run[r].pc = "done"
       /\ run[r].writes = 5
       /\ \E j \in 1..Len(ev) : ev[j] = [stage |-> "downloading", progress |-> 40]
       /\ \E j \in 1..Len(ev) : ev[j] = [stage |-> "tiling", progress |-> 78]
       /\ ev[Len(ev)] = [stage |-> "complete", progress |-> 100]

\* C28 as stated: a download that has started ends, complete or failed, also
\* when the catalog or the host of a scene never answers.
C28_EveryRunTerminates ==
  \A r \in Runs :
    (run[r].pc \notin {"idle", "done", "failed"}) ~> (run[r].pc \in {"done", "failed"})

\* C29 as stated: the bbox a download sent to the catalog is the bbox its
\* hash is derived from and the date range it sent is its year, first day to
\* last; so the record and tiles it stores under its hash are of its key.
C29_SearchedBboxIsKeyBbox ==
  \A r \in Runs :
    run[r].asked # <<>> =>
      /\ run[r].asked[1].bbox = run[r].bbox
      /\ run[r].asked[1].startDate = [year |-> run[r].year, month |-> 1, day |-> 1]
      /\ run[r].asked[1].endDate = [year |-> run[r].year, month |-> 12, day |-> 31]
      /\ run[r].pc = "done" =>
           run[r].result[1].hash = generateMosaicHash(run[r].year, run[r].asked[1].bbox)

\* C30: every record listMosaics returns has the hash generateMosaicHash
\* gives its year and bbox and lies in the directory of that name; and once a
\* download is complete its record is listed and, for every tile saveTile has
\* stored under its hash, the request made with the URL of getTileUrl is
\* answered 200 with the bytes stored.
C30_ListedRecordServesItsTiles ==
  /\ LET listed == listMosaics(Storage).mosaics
     IN \A j \in 1..Len(listed) :
          /\ SameHash(listed[j].hash, generateMosaicHash(listed[j].year, listed[j].bbox))
          /\ listed[j].hash \in dirs
          /\ listed[j].hash \in DOMAIN meta
          /\ meta[listed[j].hash] = JsonText(listed[j])
  /\ \A r \in Runs :
       run[r].pc = "done" =>
         /\ ~NotListed(Storage, run[r].result[1].hash)
         /\ \A p \in TileFiles(run[r].result[1].hash) :
              LET url == StorageGetTileUrl(run[r].year, run[r].bbox, p.z, p.x, p.y, p.format)
                  answer == TileRoute(Storage, RequestOf(url))
              IN answer.status = 200 /\ answer.body = tiles[p]

\* C30 witness: a download to zoom level 1 is complete and the request for
\* its tile 1/0/1.png, made with the URL of getTileUrl, was answered 200 with
\* the bytes stored.
C30_Witness ==
  \E r \in Runs :
    /\ run[r].pc = "done"
    /\ run[r].writes = 5
    /\ response.status = 200
    /\ response.req[1].hash = run[r].result[1].hash
    /\ response.req[1].segs = <<<<49>>, <<48>>, <<49, 46>> \o PngExt>>
    /\ response.body = tiles[TilePath(run[r].result[1].hash, 1, 0, 1, "png")]

(***************************************************************************)
(* The key derivation on its own: two keys are drawn and hashed on the     *)
(* write path (LocalMosaicStorage) and on the client (ClientMosaicApi).    *)
(***************************************************************************)

\* West coordinates around -74.2 and around 0, south coordinates around 40.5,
\* in 0.0001 degrees.
WestCoords == {-742006, -742005, -742003, -742000, -741996, -6, -4, 0, 5, 12004}

SouthCoords == {405000, 405004}

HashInputs ==
  { [year |-> y, bbox |-> <<w, s, -738000, 409000>>] :
      y \in {2020, 2021}, w \in WestCoords, s \in SouthCoords }

InitHash ==
  /\ now = 0
  /\ dirs = {}
  /\ meta = [h \in {} |-> TornText]
  /\ tiles = [p \in {} |-> ""]
  /\ run = [r \in Runs |-> IdleRun]
  /\ infoEver = {}
  /\ ops = NoCall
  /\ pin \in {<<a, b>> : a \in HashInputs, b \in HashInputs}
  /\ pout = <<>>
  /\ response = NoResponse
  /\ fetch = IdleFetch
  /\ wayback = NoWayback

\* Both keys are hashed, and the tile URL of the first is built on both sides.
DeriveKeys(z, x, y, format) ==
  /\ pout = <<>>
  /\ pout' = << [hashA |-> generateMosaicHash(pin[1].year, pin[1].bbox),
                 hashB |-> generateMosaicHash(pin[2].year, pin[2].bbox),
                 storageUrl |-> StorageGetTileUrl(pin[1].year, pin[1].bbox, z, x, y, format),
                 clientUrl |-> ClientGetTileUrl(pin[1].year, pin[1].bbox, z, x, y, format)] >>
  /\ UNCHANGED <<now, dirs, meta, tiles, run, infoEver, ops, pin, response, fetch, wayback>>

NextHash == \E format \in Formats : DeriveKeys(0, 0, 0, format)

SpecHash == InitHash /\ [][NextHash]_vars

Distance(a, b) == IF a < b THEN b - a ELSE a - b

\* C6 (as amended): two bboxes of one year whose corresponding coordinates
\* each lie less than 0.0005 degrees from one and the same multiple of 0.001
\* get the same hash; that is what the rounding collapses.
C6_SameGridPointSameHash ==
  pout # <<>> =>
    ( ( /\ pin[1].year = pin[2].year
        /\ \A i \in 1..4 :
             \E g \in {c \in (pin[1].bbox[i] - 9)..(pin[1].bbox[i] + 9) : c % 10 = 0} :
                /\ Distance(pin[1].bbox[i], g) < 5
                /\ Distance(pin[2].bbox[i], g) < 5 )
      => SameHash(pout[1].hashA, pout[1].hashB) )

\* C6 witness: two different bboxes on either side of one grid point were hashed.
C6_Witness ==
  /\ pout # <<>>
  /\ pin[1].year = pin[2].year
  /\ pin[1].bbox[1] = -742003
  /\ pin[2].bbox[1] = -741996
  /\ pin[1].bbox[2] = pin[2].bbox[2]
  /\ SameHash(pout[1].hashA, pout[1].hashB)

\* C6 as stated: coordinates that differ by less than 0.0005 degrees get the
\* same hash.
C6_CloserThanPrecisionSameHash ==
  pout # <<>> =>
    ( ( /\ pin[1].year = pin[2].year
        /\ \A i \in 1..4 : Distance(pin[1].bbox[i], pin[2].bbox[i]) < 5 )
      => SameHash(pout[1].hashA, pout[1].hashB) )

\* C7 as stated: the client builds the URL the storage builds.
C7_ClientUrlIsStorageUrl ==
  pout # <<>> => SameUrl(pout[1].clientUrl, pout[1].storageUrl)

====
